---- MODULE Spec2Model ----
(***************************************************************************)
(* A model of vercel-anti-bot: the token generator (src/src/lib.rs) and    *)
(* its AST passes (src/src/deobfuscate/*.rs).                              *)
(*                                                                         *)
(* The script is an abstract syntax tree of nodes.  Every node is a record *)
(* of the same shape:                                                      *)
(*   t  the node type ("Ident", "Call", "FnDecl", ...)                     *)
(*   s  its symbol, operator or string value                               *)
(*   c  the scope-id (SyntaxContext) of an identifier                      *)
(*   n,d  the value n/d of a numeric literal (see the numbers below)       *)
(*   z  TRUE when the node's span is the dummy span (Take::take)           *)
(*   k  the children, in the order swc's visitors meet them                *)
(* Visitors are recursive operators over this tree that thread their       *)
(* fields through the traversal, as the VisitMut implementations do.  A    *)
(* visitor that visits the children r of a node before its hook runs is    *)
(* written <<r, hook>>[2]: the children first, then the hook.              *)
(*                                                                         *)
(* f64 values are exact rationals n/d (d > 0, lowest terms); d = 0 is a    *)
(* non-finite value (0/0 NaN, 1/0 +Infinity, -1/0 -Infinity) and d = -1 a  *)
(* finite value the model does not track (a transcendental result).        *)
(***************************************************************************)
EXTENDS Integers, Sequences, FiniteSets, TLC

(***************************************************************************)
(* Numbers                                                                 *)
(***************************************************************************)
Abs(i) == IF i < 0 THEN -i ELSE i

RECURSIVE GCD(_, _)
GCD(a, b) == IF b = 0 THEN a ELSE GCD(b, a % b)

Rat(n, d) ==
  LET g == GCD(Abs(n), Abs(d))
      sg == IF d < 0 THEN -1 ELSE 1
  IN [n |-> sg * (n \div g), d |-> sg * (d \div g)]

Int2Num(i) == [n |-> i, d |-> 1]
NaN == [n |-> 0, d |-> 0]
PosInf == [n |-> 1, d |-> 0]
NegInf == [n |-> -1, d |-> 0]
Untracked == [n |-> 0, d |-> -1]

IsNaN(v) == v.d = 0 /\ v.n = 0
IsInf(v) == v.d = 0 /\ v.n # 0
IsFinite(v) == v.d # 0
IsExact(v) == v.d > 0
Sign(i) == IF i > 0 THEN 1 ELSE IF i < 0 THEN -1 ELSE 0
InfOf(sg) == IF sg < 0 THEN NegInf ELSE PosInf

NumNeg(a) == IF IsExact(a) \/ IsInf(a) THEN [n |-> -a.n, d |-> a.d] ELSE a

NumAdd(a, b) ==
  IF IsNaN(a) \/ IsNaN(b) THEN NaN
  ELSE IF IsInf(a) /\ IsInf(b) THEN (IF a.n = b.n THEN a ELSE NaN)
  ELSE IF IsInf(a) THEN a
  ELSE IF IsInf(b) THEN b
  ELSE IF ~IsExact(a) \/ ~IsExact(b) THEN Untracked
  ELSE Rat(a.n * b.d + b.n * a.d, a.d * b.d)

NumSub(a, b) == NumAdd(a, NumNeg(b))

NumMul(a, b) ==
  IF IsNaN(a) \/ IsNaN(b) THEN NaN
  ELSE IF ~IsExact(a) /\ ~IsInf(a) THEN Untracked
  ELSE IF ~IsExact(b) /\ ~IsInf(b) THEN Untracked
  ELSE IF IsInf(a) \/ IsInf(b)
       THEN (IF a.n = 0 \/ b.n = 0 THEN NaN ELSE InfOf(Sign(a.n) * Sign(b.n)))
  ELSE Rat(a.n * b.n, a.d * b.d)

NumDiv(a, b) ==
  IF IsNaN(a) \/ IsNaN(b) THEN NaN
  ELSE IF IsInf(a) /\ IsInf(b) THEN NaN
  ELSE IF ~IsExact(a) /\ ~IsInf(a) THEN Untracked
  ELSE IF ~IsExact(b) /\ ~IsInf(b) THEN Untracked
  ELSE IF IsInf(a) THEN InfOf(Sign(a.n) * (IF b.n < 0 THEN -1 ELSE 1))
  ELSE IF IsInf(b) THEN Int2Num(0)
  ELSE IF b.n = 0 THEN (IF a.n = 0 THEN NaN ELSE InfOf(Sign(a.n)))
  ELSE Rat(a.n * b.d, a.d * b.n)

\* IEEE-754 equality: NaN equals nothing, an untracked value is not known
\* to equal anything.
NumEq(a, b) == ~IsNaN(a) /\ ~IsNaN(b) /\ a.d # -1 /\ b.d # -1 /\ a = b
NumLt(a, b) ==
  /\ ~IsNaN(a) /\ ~IsNaN(b) /\ a.d # -1 /\ b.d # -1
  /\ IF IsInf(a) THEN a.n < 0 /\ b # a
     ELSE IF IsInf(b) THEN b.n > 0
     ELSE a.n * b.d < b.n * a.d

\* floor of an exact rational
FloorDiv(n, d) == n \div d
NumFloor(a) == IF IsExact(a) THEN Int2Num(FloorDiv(a.n, a.d)) ELSE a
NumCeil(a) == IF IsExact(a) THEN Int2Num(-FloorDiv(-a.n, a.d)) ELSE a
NumTrunc(a) == IF IsExact(a) THEN (IF a.n < 0 THEN NumCeil(a) ELSE NumFloor(a)) ELSE a

(***************************************************************************)
(* AST nodes                                                               *)
(***************************************************************************)
Node(t, s, c, n, d, z, k) ==
  [t |-> t, s |-> s, c |-> c, n |-> n, d |-> d, z |-> z, k |-> k]

NoCtxt == 0
UnresolvedCtxt == 1

Ident(s, c) == Node("Ident", s, c, 0, 1, FALSE, <<>>)
\* an identifier in pattern position (parameter, declarator name, assignment target)
BindingIdent(s, c) == Node("BindingIdent", s, c, 0, 1, FALSE, <<>>)
NumLit(v) == Node("Num", "", NoCtxt, v.n, v.d, FALSE, <<>>)
Lit(i) == NumLit(Int2Num(i))
StrLit(s) == Node("Str", s, NoCtxt, 0, 1, FALSE, <<>>)
Bin(op, l, r) == Node("Bin", op, NoCtxt, 0, 1, FALSE, <<l, r>>)
Unary(op, a) == Node("Unary", op, NoCtxt, 0, 1, FALSE, <<a>>)
Assign(op, l, r) == Node("Assign", op, NoCtxt, 0, 1, FALSE, <<l, r>>)
Call(callee, args) == Node("Call", "", NoCtxt, 0, 1, FALSE, <<callee>> \o args)
PropIdent(s) == Node("PropIdent", s, NoCtxt, 0, 1, FALSE, <<>>)
Computed(e) == Node("Computed", "", NoCtxt, 0, 1, FALSE, <<e>>)
Member(obj, prop) == Node("Member", "", NoCtxt, 0, 1, FALSE, <<obj, prop>>)
Array(elems) == Node("Array", "", NoCtxt, 0, 1, FALSE, elems)
Object == Node("Object", "", NoCtxt, 0, 1, FALSE, <<>>)
SeqExpr(es) == Node("Seq", "", NoCtxt, 0, 1, FALSE, es)
InvalidExpr == Node("Invalid", "", NoCtxt, 0, 1, TRUE, <<>>)
Params(ps) == Node("Params", "", NoCtxt, 0, 1, FALSE, ps)
\* a function: its parameters, then the statements of its body
FnExpr(ps, body) == Node("FnExpr", "", NoCtxt, 0, 1, FALSE, <<Params(ps)>> \o body)
FnDecl(s, c, ps, body) == Node("FnDecl", s, c, 0, 1, FALSE, <<Params(ps)>> \o body)
ArrayPat(ps) == Node("ArrayPat", "", NoCtxt, 0, 1, FALSE, ps)
InvalidPat == Node("InvalidPat", "", NoCtxt, 0, 1, TRUE, <<>>)
Declarator(name, init) == Node("Declarator", "", NoCtxt, 0, 1, FALSE, <<name, init>>)
VarDecl(ds) == Node("VarDecl", "", NoCtxt, 0, 1, FALSE, ds)
Return(e) == Node("Return", "", NoCtxt, 0, 1, FALSE, <<e>>)
\* an expression statement is its expression
ExprStmt(e) == e
If(test, cons) == Node("If", "", NoCtxt, 0, 1, FALSE, <<test, cons>>)
EmptyStmt == Node("Empty", "", NoCtxt, 0, 1, TRUE, <<>>)
Program(ss) == Node("Program", "", NoCtxt, 0, 1, FALSE, ss)

\* Take::take on a FnDecl: the dummy declaration (dummy identifier, no body)
DummyFnDecl == Node("FnDecl", "", NoCtxt, 0, 1, TRUE, <<>>)

NumOf(node) == [n |-> node.n, d |-> node.d]
IdOf(node) == <<node.s, node.c>>
IsIdent(node) == node.t \in {"Ident", "BindingIdent", "PropIdent"}
\* Option<T>: <<>> is None, <<v>> is Some(v)
None == <<>>
Some(v) == <<v>>
IsSome(o) == o # <<>>
EmptyMap == [x \in {} |-> 0]
MapPut(m, key, v) == (key :> v) @@ m
IsExpr(node) ==
  node.t \in {"Ident", "Num", "Str", "Bin", "Unary", "Assign", "Call", "Member",
              "Array", "Object", "Seq", "Invalid", "FnExpr"}

\* visit_mut_children_with: visit the children in order, threading the
\* visitor's fields st through
RECURSIVE MapKids(_, _, _)
MapKids(V(_, _), kids, st) ==
  CASE Len(kids) = 0 -> [k |-> <<>>, st |-> st]
    [] Len(kids) = 1 ->
         LET h1 == V(kids[1], st)
         IN [k |-> <<h1.n>>, st |-> h1.st]
    [] Len(kids) = 2 ->
         LET h1 == V(kids[1], st)
             h2 == V(kids[2], h1.st)
         IN [k |-> <<h1.n, h2.n>>, st |-> h2.st]
    [] Len(kids) = 3 ->
         LET h1 == V(kids[1], st)
             h2 == V(kids[2], h1.st)
             h3 == V(kids[3], h2.st)
         IN [k |-> <<h1.n, h2.n, h3.n>>, st |-> h3.st]
    [] OTHER ->
         LET h1 == V(kids[1], st)
             h2 == V(kids[2], h1.st)
             h3 == V(kids[3], h2.st)
             h4 == V(kids[4], h3.st)
             r == MapKids(V, SubSeq(kids, 5, Len(kids)), h4.st)
         IN [k |-> <<h1.n, h2.n, h3.n, h4.n>> \o r.k, st |-> r.st]

RECURSIVE MapPure(_, _)
MapPure(V(_), kids) ==
  CASE Len(kids) = 0 -> <<>>
    [] Len(kids) = 1 -> <<V(kids[1])>>
    [] Len(kids) = 2 -> <<V(kids[1]), V(kids[2])>>
    [] Len(kids) = 3 -> <<V(kids[1]), V(kids[2]), V(kids[3])>>
    [] OTHER -> <<V(kids[1]), V(kids[2]), V(kids[3]), V(kids[4])>>
                \o MapPure(V, SubSeq(kids, 5, Len(kids)))

RECURSIVE SelectKids(_, _)
SelectKids(Keep(_), kids) ==
  IF kids = <<>> THEN <<>>
  ELSE (IF Keep(Head(kids)) THEN <<Head(kids)>> ELSE <<>>) \o SelectKids(Keep, Tail(kids))

\* every node of a tree, in traversal order
RECURSIVE Nodes(_)
RECURSIVE NodesOf(_)
NodesOf(kids) == IF kids = <<>> THEN <<>> ELSE Nodes(Head(kids)) \o NodesOf(Tail(kids))
Nodes(node) == <<node>> \o NodesOf(node.k)

NodeSet(node) == LET ns == Nodes(node) IN {ns[i] : i \in 1..Len(ns)}

(***************************************************************************)
(* The expression simplifier (swc's expr_simplifier, consumed interface):  *)
(* constant-folds arithmetic on numeric literals, bottom-up.  A NaN result *)
(* is the identifier NaN, not a numeric literal; a division by zero is not *)
(* folded.                                                                 *)
(***************************************************************************)
ArithOps == {"+", "-", "*", "/"}

FoldBin(op, a, b) ==
  CASE op = "+" -> NumAdd(a, b)
    [] op = "-" -> NumSub(a, b)
    [] op = "*" -> NumMul(a, b)
    [] op = "/" -> NumDiv(a, b)

NumOrNaN(v) == IF IsNaN(v) THEN Ident("NaN", UnresolvedCtxt) ELSE NumLit(v)

RECURSIVE Simplify(_)
Simplify(e) ==
  IF e.k = <<>> THEN e
  ELSE
  LET kids == MapPure(Simplify, e.k)
      folded ==
        IF e.t = "Bin" /\ e.s \in ArithOps /\ kids[1].t = "Num" /\ kids[2].t = "Num"
           /\ ~(e.s = "/" /\ kids[2].n = 0 /\ kids[2].d = 1)
        THEN NumOrNaN(FoldBin(e.s, NumOf(kids[1]), NumOf(kids[2])))
        ELSE IF e.t = "Unary" /\ e.s = "-" /\ kids[1].t = "Num"
        THEN NumOrNaN(NumNeg(NumOf(kids[1])))
        ELSE [e EXCEPT !.k = kids]
  IN <<kids, folded>>[2]

(***************************************************************************)
(* E: the proxy-variable eliminator (proxy_vars.rs)                        *)
(***************************************************************************)
\* FunctionVisitor: the identifiers of the function declarations, and for
\* every symbol the highest scope-id an identifier with that symbol carries
FunctionVisitorIdent(node, st) ==
  IF node.s \in DOMAIN st.identifiers
  THEN (IF node.c > st.identifiers[node.s]
        THEN [st EXCEPT !.identifiers = MapPut(st.identifiers, node.s, node.c)]
        ELSE st)
  ELSE [st EXCEPT !.identifiers = MapPut(st.identifiers, node.s, node.c)]

RECURSIVE FunctionVisitor(_, _)
FunctionVisitor(node, st) ==
  IF node.t = "FnDecl"
  THEN LET st1 == [st EXCEPT !.functions = st.functions \cup {IdOf(node)}]
           st2 == FunctionVisitorIdent(node, st1)
           r == MapKids(FunctionVisitor, node.k, st2)
       IN [n |-> node, st |-> r.st]
  ELSE IF IsIdent(node)
  THEN [n |-> node, st |-> FunctionVisitorIdent(node, st)]
  ELSE [n |-> node, st |-> MapKids(FunctionVisitor, node.k, st).st]

ProxyFnNames == <<"proxyFn0", "proxyFn1", "proxyFn2", "proxyFn3", "proxyFn4", "proxyFn5">>
\* "proxyFn" followed by the counter
NewName(counter) == ProxyFnNames[counter + 1]

\* Visitor::visit_mut_ident
ProxyVisitIdent(node, st) ==
  IF IdOf(node) \in DOMAIN st.replacements
  THEN [node EXCEPT !.s = st.replacements[IdOf(node)][1],
                    !.c = st.replacements[IdOf(node)][2]]
  ELSE node

\* Visitor::visit_mut_var_declarator, after the children were visited
ProxyDeclarator(node, st) ==
  IF /\ node.k[1].t = "BindingIdent"
     /\ Len(node.k) = 2
     /\ node.k[2].t = "Ident"
     /\ IdOf(node.k[2]) \in st.functions
  THEN LET fn_id == node.k[2]
           var_id == node.k[1]
           collides == /\ fn_id.s \in DOMAIN st.identifiers
                       /\ fn_id.c < st.identifiers[fn_id.s]
           replacement_sym == IF collides THEN NewName(st.new_name_counter) ELSE fn_id.s
           st1 == IF collides
                  THEN [st EXCEPT !.new_name_counter = @ + 1,
                                  !.function_replacements =
                                      MapPut(@, IdOf(fn_id), replacement_sym)]
                  ELSE st
       IN [n |-> [node EXCEPT !.k[1] = InvalidPat],
           st |-> [st1 EXCEPT !.replacements =
                       MapPut(@, IdOf(var_id), <<replacement_sym, fn_id.c>>)]]
  ELSE [n |-> node, st |-> st]

NameIsValid(declarator) == declarator.k[1].t # "InvalidPat"

RECURSIVE ProxyVisit(_, _)
ProxyVisit(node, st) ==
  IF IsIdent(node) THEN [n |-> ProxyVisitIdent(node, st), st |-> st]
  ELSE
  LET r == MapKids(ProxyVisit, node.k, st)
      visited == [node EXCEPT !.k = r.k]
      hook ==
        CASE node.t = "FnDecl" -> [n |-> ProxyVisitIdent(visited, st), st |-> r.st]
          [] node.t = "Declarator" -> ProxyDeclarator(visited, r.st)
          [] node.t = "ForInit" ->
               [n |-> [node EXCEPT !.k = SelectKids(NameIsValid, r.k)], st |-> r.st]
          [] node.t = "VarDecl" ->
               \* visit_mut_var_declarators, then visit_mut_stmt
               LET kept == SelectKids(NameIsValid, r.k)
               IN [n |-> IF kept = <<>> THEN EmptyStmt ELSE [node EXCEPT !.k = kept],
                   st |-> r.st]
          [] OTHER -> [n |-> visited, st |-> r.st]
  IN <<r, hook>>[2]

\* RenameFunctionVisitor: st is the map of the renames still to apply
RECURSIVE RenameFunction(_, _)
RenameFunction(node, st) ==
  IF node.t = "FnDecl"
  THEN IF IdOf(node) \in DOMAIN st
       THEN LET renamed == [node EXCEPT !.s = st[IdOf(node)]]
                rest == [id \in DOMAIN st \ {IdOf(node)} |-> st[id]]
            IN IF DOMAIN rest # {}
               THEN LET r == MapKids(RenameFunction, renamed.k, rest)
                    IN [n |-> [renamed EXCEPT !.k = r.k], st |-> r.st]
               ELSE [n |-> renamed, st |-> rest]
       ELSE [n |-> node, st |-> st]
  ELSE LET r == MapKids(RenameFunction, node.k, st)
       IN [n |-> [node EXCEPT !.k = r.k], st |-> r.st]

ProxyInitState ==
  [functions |-> {}, identifiers |-> EmptyMap, replacements |-> EmptyMap,
   new_name_counter |-> 0, function_replacements |-> EmptyMap]

\* Visitor::visit_mut_program: the three traversals
ProxyPrepass(program) == FunctionVisitor(program, ProxyInitState).st
ProxyMain(program, st) == ProxyVisit(program, st)
ProxyRename(program, st) ==
  IF DOMAIN st.function_replacements # {}
  THEN RenameFunction(program, st.function_replacements).n
  ELSE program
ProxyVars(program) ==
  LET st == ProxyPrepass(program)
      m == ProxyMain(program, st)
  IN <<st, m, ProxyRename(m.n, m.st)>>[3]

(***************************************************************************)
(* F: the string deobfuscator (strings.rs)                                 *)
(***************************************************************************)
\* FindObfuscatedStringsVisitor::visit_mut_array_lit: the strings of an
\* array literal whose elements are all string literals, else None
IsStrElem(e) == e.t = "Str"
StrValue(e) == e.s
AllStrings(array) ==
  IF SelectKids(IsStrElem, array.k) = array.k
  THEN Some(MapPure(StrValue, array.k))
  ELSE None

RECURSIVE FindObfuscatedStrings(_, _)
FindObfuscatedStrings(node, st) ==
  CASE node.t = "FnDecl" ->
         IF IsSome(st.fn_id) THEN [n |-> node, st |-> st]
         ELSE LET r == MapKids(FindObfuscatedStrings, node.k,
                               [st EXCEPT !.is_inside_fn = TRUE])
                  st1 == [r.st EXCEPT !.is_inside_fn = st.is_inside_fn]
              IN IF IsSome(r.st.obfuscated_strings)
                 THEN [n |-> DummyFnDecl, st |-> [st1 EXCEPT !.fn_id = Some(IdOf(node))]]
                 ELSE [n |-> [node EXCEPT !.k = r.k], st |-> st1]
    [] node.t = "Array" ->
         IF st.is_inside_fn /\ IsSome(AllStrings(node))
         THEN [n |-> node, st |-> [st EXCEPT !.obfuscated_strings = AllStrings(node)]]
         ELSE [n |-> node, st |-> st]
    [] OTHER ->
         LET r == MapKids(FindObfuscatedStrings, node.k, st)
         IN [n |-> [node EXCEPT !.k = r.k], st |-> r.st]

FindObfuscatedStringsInit ==
  [is_inside_fn |-> FALSE, fn_id |-> None, obfuscated_strings |-> None]

\* FindIndexFunctionVisitor
RECURSIVE FindIndexFunction(_, _)
FindIndexFunction(node, st) ==
  CASE node.t = "FnDecl" ->
         LET r == MapKids(FindIndexFunction, node.k,
                          [st EXCEPT !.is_inside_fn_decl = TRUE])
             st1 == [r.st EXCEPT !.is_inside_fn_decl = st.is_inside_fn_decl]
             found == /\ st1.is_inside_correct_fn
                      /\ ~IsSome(st1.fn_id)
                      /\ st1.get_obfuscated_strings_fn # IdOf(node)
             st2 == IF found THEN [st1 EXCEPT !.fn_id = Some(IdOf(node))] ELSE st1
             st3 == IF st2.is_inside_fn_decl /\ st2.is_inside_correct_fn
                    THEN [st2 EXCEPT !.is_inside_correct_fn = FALSE]
                    ELSE st2
         IN <<r, [n |-> IF found THEN DummyFnDecl ELSE [node EXCEPT !.k = r.k],
                  st |-> st3]>>[2]
    [] node.t = "Call" ->
         IF /\ ~st.is_inside_correct_fn
            /\ node.k[1].t = "Ident"
            /\ IdOf(node.k[1]) = st.get_obfuscated_strings_fn
         THEN [n |-> node, st |-> [st EXCEPT !.is_inside_correct_fn = TRUE]]
         ELSE [n |-> node, st |-> st]
    [] node.t = "Assign" ->
         LET r == MapKids(FindIndexFunction, node.k, st)
             visited == [node EXCEPT !.k = r.k]
             right == visited.k[2]
             hook ==
               IF /\ r.st.is_inside_correct_fn
                  /\ ~IsSome(r.st.index)
                  /\ node.s = "="
                  /\ right.t = "Bin"
                  /\ right.k[2].t = "Num"
               THEN [n |-> visited,
                     st |-> [r.st EXCEPT !.index =
                                Some([offset |-> NumOf(right.k[2]), op |-> right.s])]]
               ELSE [n |-> visited, st |-> r.st]
         IN <<r, hook>>[2]
    [] OTHER ->
         LET r == MapKids(FindIndexFunction, node.k, st)
         IN [n |-> [node EXCEPT !.k = r.k], st |-> r.st]

FindIndexFunctionNew(get_obfuscated_strings_fn) ==
  [get_obfuscated_strings_fn |-> get_obfuscated_strings_fn,
   is_inside_fn_decl |-> FALSE, is_inside_correct_fn |-> FALSE,
   index |-> None, fn_id |-> None]

\* FindObfExpression
RECURSIVE FindObfExpression(_, _)
FindObfExpression(node, st) ==
  CASE node.t = "Call" ->
         LET args == Tail(node.k)
             other_fn == /\ Len(args) >= 1
                         /\ args[1].t = "Ident"
                         /\ IdOf(args[1]) # st.get_obfuscated_strings_fn
         IN IF ~other_fn /\ Len(args) >= 2 /\ args[2].t = "Num"
            THEN LET r == MapKids(FindObfExpression, node.k,
                                  [st EXCEPT !.answer = Some(NumOf(args[2])),
                                             !.is_inside_correct_call_expr = TRUE])
                 IN [n |-> [node EXCEPT !.z = TRUE, !.k = r.k],
                     st |-> [r.st EXCEPT !.is_inside_correct_call_expr =
                                st.is_inside_correct_call_expr]]
            ELSE [n |-> node, st |-> st]
    [] node.t = "Declarator" ->
         IF ~st.is_inside_correct_call_expr THEN [n |-> node, st |-> st]
         ELSE LET r == MapKids(FindObfExpression, node.k, st)
                  visited == [node EXCEPT !.k = r.k]
              IN IF Len(r.k) = 2 /\ r.k[2].t = "Bin"
                 THEN [n |-> visited, st |-> [r.st EXCEPT !.expr = Some(r.k[2])]]
                 ELSE [n |-> visited, st |-> r.st]
    [] OTHER ->
         LET r == MapKids(FindObfExpression, node.k, st)
         IN [n |-> [node EXCEPT !.k = r.k], st |-> r.st]

FindObfExpressionNew(get_obfuscated_strings_fn) ==
  [get_obfuscated_strings_fn |-> get_obfuscated_strings_fn,
   is_inside_correct_call_expr |-> FALSE, answer |-> None, expr |-> None]

\* The characters of the words a dictionary of the model can hold
Chars(w) ==
  CASE w = "floor" -> <<"f", "l", "o", "o", "r">>
    [] w = "abs" -> <<"a", "b", "s">>
    [] w = "keys" -> <<"k", "e", "y", "s">>
    [] w = "3k" -> <<"3", "k">>
    [] w = "5" -> <<"5">>
    [] w = "12x" -> <<"1", "2", "x">>
    [] w = "k9" -> <<"k", "9">>
    [] w = "log" -> <<"l", "o", "g">>
    [] w = "" -> <<>>

DigitValue(ch) ==
  CASE ch = "0" -> 0 [] ch = "1" -> 1 [] ch = "2" -> 2 [] ch = "3" -> 3
    [] ch = "4" -> 4 [] ch = "5" -> 5 [] ch = "6" -> 6 [] ch = "7" -> 7
    [] ch = "8" -> 8 [] ch = "9" -> 9
\* char::is_numeric, on the characters above
IsNumeric(ch) == ch \in {"0", "1", "2", "3", "4", "5", "6", "7", "8", "9"}

\* input.find(|c| !c.is_numeric()).unwrap_or(input.len()): the length of
\* the numeric prefix
RECURSIVE NumericPrefixLen(_)
NumericPrefixLen(chars) ==
  IF chars = <<>> \/ ~IsNumeric(Head(chars)) THEN 0
  ELSE 1 + NumericPrefixLen(Tail(chars))

\* str::parse::<usize> of a string of digits; the empty string is an error
RECURSIVE ParseDigits(_, _)
ParseDigits(chars, acc) ==
  IF chars = <<>> THEN acc
  ELSE ParseDigits(Tail(chars), 10 * acc + DigitValue(Head(chars)))

atoi(w) ==
  LET i == NumericPrefixLen(Chars(w))
  IN IF i = 0 THEN None ELSE Some(ParseDigits(SubSeq(Chars(w), 1, i), 0))

(***************************************************************************)
(* u32 values are kept as the integer with the same 32 bits read as a      *)
(* signed number: 0 .. 2^31-1 stand for themselves, a negative v stands    *)
(* for 2^32 + v.                                                           *)
(***************************************************************************)
U32Bits == 32
\* `value as u32`: NaN and negative values give 0, the fraction is dropped
AsU32(v) ==
  IF IsExact(v) THEN (IF v.n < 0 THEN 0 ELSE v.n \div v.d)
  ELSE IF v = PosInf THEN -1
  ELSE 0

RECURSIVE Pow(_, _)
Pow(b, e) == IF e = 0 THEN 1 ELSE b * Pow(b, e - 1)

RECURSIVE BitOp(_, _, _)
BitOp(op, a, b) ==
  IF a = 0 /\ b = 0 THEN 0
  ELSE LET x == a % 2
           y == b % 2
           bit == CASE op = "|" -> IF x + y > 0 THEN 1 ELSE 0
                    [] op = "^" -> (x + y) % 2
                    [] op = "&" -> x * y
       IN bit + 2 * BitOp(op, a \div 2, b \div 2)

(***************************************************************************)
(* The arithmetic of get_index is done on the two 16-bit halves            *)
(* <<high, low>> of a u32, so that no intermediate value leaves the        *)
(* integers of the checker.  An operation gives the wrapped result v and   *)
(* o, whether the exact result is outside 0 .. 2^32-1.                     *)
(***************************************************************************)
Limb == Pow(2, U32Bits \div 2)
HighBit == Limb \div 2
MaxSigned == (HighBit - 1) * Limb + (Limb - 1)
ToLimbs(v) ==
  IF v >= 0 THEN <<v \div Limb, v % Limb>>
  ELSE <<HighBit + (((v + MaxSigned) + 1) \div Limb), ((v + MaxSigned) + 1) % Limb>>
FromLimbs(l) ==
  IF l[1] < HighBit THEN l[1] * Limb + l[2]
  ELSE (((l[1] - HighBit) * Limb + l[2]) - MaxSigned) - 1
ZeroU == <<0, 0>>
OneU == <<0, 1>>
Exact(l) == [v |-> l, o |-> FALSE]
LtU(a, b) == a[1] < b[1] \/ (a[1] = b[1] /\ a[2] < b[2])
IsOddU(a) == a[2] % 2 = 1
HalveU(a) == <<a[1] \div 2, (a[2] + (a[1] % 2) * Limb) \div 2>>
\* a + b from the sums of the halves
AddCarry(hi, lo) == [v |-> <<hi % Limb, lo % Limb>>, o |-> hi >= Limb]
AddHalves(hi, lo) == AddCarry(hi + (lo \div Limb), lo)
AddU(a, b) == AddHalves(a[1] + b[1], a[2] + b[2])
\* a - b from the differences of the halves
SubBorrow(hi, lo) ==
  [v |-> <<(hi + Limb) % Limb, (lo + Limb) % Limb>>, o |-> hi < 0]
SubHalves(hi, lo) == SubBorrow(hi - (IF lo < 0 THEN 1 ELSE 0), lo)
SubU(a, b) == SubHalves(a[1] - b[1], a[2] - b[2])
\* the product of two halves, as <<high, low>>
Mul16Carry(t, u, lo) ==
  <<(t \div 256) + (u \div Limb) + (lo \div Limb), lo % Limb>>
Mul16Sum(t, u) == Mul16Carry(t, u, (t % 256) * 256 + (u % Limb))
Mul16(x, y) == Mul16Sum((x \div 256) * y, (x % 256) * y)
MulCarry(a, b, p00, p01, p10, mid) ==
  [v |-> <<mid % Limb, p00[2]>>,
   o |-> (a[1] # 0 /\ b[1] # 0) \/ p01[1] # 0 \/ p10[1] # 0 \/ mid >= Limb]
MulSum(a, b, p00, p01, p10) ==
  MulCarry(a, b, p00, p01, p10, p00[1] + p01[2] + p10[2])
MulU(a, b) ==
  MulSum(a, b, Mul16(a[2], b[2]), Mul16(a[2], b[1]), Mul16(a[1], b[2]))
\* u32::pow: square and multiply
RECURSIVE PowLoop(_, _, _)
PowRest(acc1, sq, rest) == [v |-> rest.v, o |-> acc1.o \/ sq.o \/ rest.o]
PowStep(acc1, sq, exp2) ==
  <<acc1, sq, exp2, PowRest(acc1, sq, PowLoop(sq.v, acc1.v, exp2))>>[4]
PowLoop(base, acc, exp) ==
  IF ~LtU(OneU, exp) THEN MulU(acc, base)
  ELSE PowStep(IF IsOddU(exp) THEN MulU(acc, base) ELSE Exact(acc),
               MulU(base, base), HalveU(exp))
PowU(a, e) == IF e = ZeroU THEN Exact(OneU) ELSE PowLoop(a, OneU, e)
\* a << s and a >> s for s in 0 .. 31: the bits shifted out are dropped
ShlU(a, s) ==
  MulU(a, IF s < U32Bits \div 2 THEN <<0, Pow(2, s)>>
          ELSE <<Pow(2, s - U32Bits \div 2), 0>>).v
ShrLow(a, p) == <<a[1] \div p, (a[2] + (a[1] % p) * Limb) \div p>>
ShrU(a, s) ==
  IF s >= U32Bits \div 2 THEN <<0, a[1] \div Pow(2, s - U32Bits \div 2)>>
  ELSE ShrLow(a, Pow(2, s))
\* quotient and remainder, b not zero
DivOne(a, b) ==
  IF LtU(a, b) THEN [q |-> ZeroU, r |-> a] ELSE [q |-> OneU, r |-> SubU(a, b).v]
DivSigned(x, y) == [q |-> ToLimbs(x \div y), r |-> ToLimbs(x % y)]
DivFix(b, s, q0) ==
  IF LtU(s, b) THEN [q |-> q0, r |-> s]
  ELSE [q |-> AddU(q0, OneU).v, r |-> SubU(s, b).v]
\* a = 2^31 + w and 2^31 = MaxSigned + 1
DivHigh(b, y, w) ==
  DivFix(b, AddU(ToLimbs((MaxSigned % y) + 1), ToLimbs(w % y)).v,
         AddU(ToLimbs(MaxSigned \div y), ToLimbs(w \div y)).v)
DivModU(a, b) ==
  IF b[1] >= HighBit THEN DivOne(a, b)
  ELSE IF a[1] < HighBit THEN DivSigned(FromLimbs(a), FromLimbs(b))
  ELSE DivHigh(b, FromLimbs(b), FromLimbs(<<a[1] - HighBit, a[2]>>))

Ok(v) == [panic |-> FALSE, v |-> Some(v)]
Panic == [panic |-> TRUE, v |-> None]

\* an arithmetic result in a build: with overflow checks an overflow panics,
\* without them the result wraps
Checked(r, overflow_checks) ==
  IF r.o /\ overflow_checks THEN Panic ELSE Ok(FromLimbs(r.v))
\* a shift: with overflow checks a shift by 32 or more panics, without them
\* the shift amount is taken modulo 32
Shifted(left, a, b, overflow_checks) ==
  IF (b[1] > 0 \/ b[2] >= U32Bits) /\ overflow_checks THEN Panic
  ELSE Ok(FromLimbs(IF left THEN ShlU(a, b[2] % U32Bits) ELSE ShrU(a, b[2] % U32Bits)))

U32Op(a, b, op, overflow_checks) ==
  CASE op = "<<" -> Shifted(TRUE, a, b, overflow_checks)
    [] op \in {">>", ">>>"} -> Shifted(FALSE, a, b, overflow_checks)
    [] op = "+" -> Checked(AddU(a, b), overflow_checks)
    [] op = "-" -> Checked(SubU(a, b), overflow_checks)
    [] op = "*" -> Checked(MulU(a, b), overflow_checks)
    [] op = "/" -> IF b = ZeroU THEN Panic ELSE Ok(FromLimbs(DivModU(a, b).q))
    [] op = "%" -> IF b = ZeroU THEN Panic ELSE Ok(FromLimbs(DivModU(a, b).r))
    [] op \in {"|", "^", "&"} ->
         Ok(FromLimbs(<<BitOp(op, a[1], b[1]), BitOp(op, a[2], b[2])>>))
    [] op = "**" -> Checked(PowU(a, b), overflow_checks)
    [] OTHER -> [panic |-> FALSE, v |-> None]

\* get_index.  overflow_checks is the build's overflow-checks setting.  A
\* division by zero panics in every build.
get_index(index, offset, op, overflow_checks) ==
  U32Op(ToLimbs(index), ToLimbs(offset), op, overflow_checks)

\* VecDeque::get(index as usize)
DequeGet(strings, index) ==
  IF index >= 0 /\ index < Len(strings) THEN Some(strings[index + 1]) ELSE None

\* ExprVisitor: st holds index_data, obfuscated_strings, overflow_checks
\* and whether get_index panicked
NaNIdent == Ident("NaN", NoCtxt)

IsIndexedCall(call) ==
  /\ Len(call.k) >= 2
  /\ call.k[2].t = "Call"
  /\ Len(call.k[2].k) >= 2
  /\ call.k[2].k[2].t = "Num"

RECURSIVE ExprVisitor(_, _)
ExprVisitor(node, st) ==
  LET r == MapKids(ExprVisitor, node.k, st)
      visited == [node EXCEPT !.k = r.k]
      hook ==
        IF /\ visited.t = "Call"
           /\ visited.k[1].t = "Ident"
           /\ visited.k[1].s = "parseInt"
           /\ IsIndexedCall(visited)
        THEN LET offset == NumOf(visited.k[2].k[2])
                 gi == get_index(AsU32(offset), AsU32(st.index_data.offset),
                                 st.index_data.op, st.overflow_checks)
                 s == IF IsSome(gi.v) THEN DequeGet(st.obfuscated_strings, gi.v[1])
                      ELSE None
                 parsed == IF IsSome(s) THEN atoi(s[1]) ELSE None
             IN IF gi.panic THEN [n |-> visited, st |-> [r.st EXCEPT !.panicked = TRUE]]
                ELSE [n |-> IF IsSome(parsed) THEN Lit(parsed[1]) ELSE NaNIdent,
                      st |-> r.st]
        ELSE [n |-> visited, st |-> r.st]
  IN <<r, hook>>[2]

\* one evaluation of the checksum in the rotation loop: the simplified
\* expression, and whether get_index panicked
EvalChecksum(original_expr, index_data, obfuscated_strings, overflow_checks) ==
  LET r == MapKids(ExprVisitor, original_expr.k,
                   [index_data |-> index_data, obfuscated_strings |-> obfuscated_strings,
                    overflow_checks |-> overflow_checks, panicked |-> FALSE])
  IN [panic |-> r.st.panicked,
      expr |-> Simplify([original_expr EXCEPT !.k = r.k])]

\* a comparison that accepts every numeric literal
AnyNumberMatches(simplified, answer) == simplified.t = "Num"

ChecksumMatches(simplified, answer) ==
  simplified.t = "Num" /\ NumEq(NumOf(simplified), answer)

\* a rotation that leaves the deque as it is
Unrotated(strings) == strings

\* pop_front alone
PopFront(strings) == Tail(strings)

\* a rotation by two places
RotatedTwice(strings) ==
  [i \in 1..Len(strings) |-> strings[((i + 1) % Len(strings)) + 1]]

\* pop_front then push_back
Rotate(strings) == Tail(strings) \o <<Head(strings)>>

\* CleanupVisitor: st holds index_fn_id, index_data, plaintext_strings,
\* overflow_checks and whether get_index panicked
\* visit_mut_stmt takes an expression statement whose expression is invalid,
\* visit_mut_stmts drops the empty statements
IsNotEmptyStmt(stmt) == stmt.t \notin {"Empty", "Invalid"}
IsNotInvalid(expr) == expr.t # "Invalid"

\* a sweep that replaces nothing
KeepExpr(expr, st) == [n |-> expr, st |-> st]

CleanupExpr(expr, st) ==
  IF expr.t # "Call" THEN [n |-> expr, st |-> st]
  ELSE IF expr.z THEN [n |-> InvalidExpr, st |-> st]
  ELSE IF /\ expr.k[1].t = "Ident"
          /\ IdOf(expr.k[1]) = st.index_fn_id
          /\ Len(expr.k) >= 2
          /\ expr.k[2].t = "Num"
  THEN LET gi == get_index(AsU32(NumOf(expr.k[2])), AsU32(st.index_data.offset),
                           st.index_data.op, st.overflow_checks)
           plaintext == IF IsSome(gi.v) THEN DequeGet(st.plaintext_strings, gi.v[1])
                        ELSE None
       IN IF gi.panic THEN [n |-> expr, st |-> [st EXCEPT !.panicked = TRUE]]
          ELSE [n |-> IF IsSome(plaintext) THEN StrLit(plaintext[1]) ELSE expr, st |-> st]
  ELSE [n |-> expr, st |-> st]

RECURSIVE CleanupVisitor(_, _)
CleanupVisitor(node, st) ==
  LET r == MapKids(CleanupVisitor, node.k, st)
      visited == [node EXCEPT !.k = r.k]
      hook ==
        CASE node.t = "FnDecl" ->
               [n |-> IF node.s = "" /\ node.z THEN EmptyStmt
                      ELSE [node EXCEPT !.k = SelectKids(IsNotEmptyStmt, r.k)],
                st |-> r.st]
          [] node.t \in {"Block", "Program"} ->
               [n |-> [node EXCEPT !.k = SelectKids(IsNotEmptyStmt, r.k)], st |-> r.st]
          [] node.t = "FnExpr" ->
               CleanupExpr([node EXCEPT !.k = SelectKids(IsNotEmptyStmt, r.k)], r.st)
          [] node.t = "Seq" ->
               [n |-> [node EXCEPT !.k = SelectKids(IsNotInvalid, r.k)], st |-> r.st]
          [] IsExpr(node) -> CleanupExpr(visited, r.st)
          [] OTHER -> [n |-> visited, st |-> r.st]
  IN <<r, hook>>[2]

(***************************************************************************)
(* D: the computed-member rewriter (computed_member_expr.rs)               *)
(***************************************************************************)
\* a rewriter that swaps the two forms: obj["s"] becomes obj.s and obj.s
\* becomes obj["s"]
RECURSIVE SwapMemberProp(_)
SwapMemberProp(node) ==
  LET kids == MapPure(SwapMemberProp, node.k)
      hook ==
        IF node.t = "Member" /\ kids[2].t = "Computed" /\ kids[2].k[1].t = "Str"
        THEN [node EXCEPT !.k = <<kids[1], PropIdent(kids[2].k[1].s)>>]
        ELSE IF node.t = "Member" /\ kids[2].t = "PropIdent"
        THEN [node EXCEPT !.k = <<kids[1], Computed(StrLit(kids[2].s))>>]
        ELSE [node EXCEPT !.k = kids]
  IN <<kids, hook>>[2]

RECURSIVE ComputedMemberExpr(_)
ComputedMemberExpr(node) ==
  LET kids == MapPure(ComputedMemberExpr, node.k)
      hook ==
        IF /\ node.t = "Member"
           /\ kids[2].t = "Computed"
           /\ kids[2].k[1].t = "Str"
        THEN [node EXCEPT !.k = <<kids[1], PropIdent(kids[2].k[1].s)>>]
        ELSE [node EXCEPT !.k = kids]
  IN <<kids, hook>>[2]

(***************************************************************************)
(* G: the math evaluator (math_expr.rs)                                    *)
(***************************************************************************)
\* get_field.  The f64 constants are stood for by rationals close to them;
\* the constants no script of the model reads are untracked values.
MathPI == Rat(355, 113)
MathE == Rat(193, 71)
get_field(field) ==
  CASE field = "E" -> Some(MathE)
    [] field = "PI" -> Some(MathPI)
    [] field \in {"LN10", "LN2", "LOG10E", "LOG2E", "SQRT1_2", "SQRT2"} -> Some(Untracked)
    [] OTHER -> None

\* get_arg!: the argument at index, NaN if it does not exist
GetArg(args, index) == IF index < Len(args) THEN args[index + 1] ELSE NaN

\* a function of one argument whose finite results the model does not track
UntrackedOf(v) == IF IsNaN(v) THEN NaN ELSE Untracked

NumAbs(v) == IF IsExact(v) \/ IsInf(v) THEN [n |-> Abs(v.n), d |-> v.d] ELSE v
\* f64::round: half-way cases away from zero
NumRound(v) ==
  IF ~IsExact(v) THEN v
  ELSE IF v.n >= 0 THEN NumFloor(NumAdd(v, Rat(1, 2)))
  ELSE NumNeg(NumFloor(NumAdd(NumNeg(v), Rat(1, 2))))
\* f64::max and f64::min: a NaN operand is ignored
NumMax(a, b) == IF IsNaN(a) THEN b ELSE IF IsNaN(b) THEN a ELSE IF NumLt(a, b) THEN b ELSE a
NumMin(a, b) == IF IsNaN(a) THEN b ELSE IF IsNaN(b) THEN a ELSE IF NumLt(b, a) THEN b ELSE a
\* the "sign" arm: `v == f64::NAN` is false for every v
NumSign(v) ==
  IF FALSE THEN NaN
  ELSE IF NumLt(Int2Num(0), v) THEN Int2Num(1)
  ELSE IF NumLt(v, Int2Num(0)) THEN Int2Num(-1)
  ELSE Int2Num(0)
NumLn(v) ==
  IF IsNaN(v) \/ NumLt(v, Int2Num(0)) THEN NaN
  ELSE IF v = Int2Num(0) THEN NegInf
  ELSE IF v = Int2Num(1) THEN Int2Num(0)
  ELSE IF v = PosInf THEN PosInf
  ELSE Untracked
IsSquare(i) == \E r \in 0..i : r * r = i
Root(i) == CHOOSE r \in 0..i : r * r = i
NumSqrt(v) ==
  IF IsNaN(v) \/ NumLt(v, Int2Num(0)) THEN NaN
  ELSE IF v = PosInf THEN PosInf
  ELSE IF IsExact(v) /\ IsSquare(v.n) /\ IsSquare(v.d) THEN Rat(Root(v.n), Root(v.d))
  ELSE Untracked

UntrackedFns ==
  {"acos", "acosh", "asin", "asinh", "atan", "atan2", "atanh", "cbrt", "clz32",
   "cos", "cosh", "exp", "expm1", "fround", "hypot", "imul", "log10", "log1p",
   "log2", "pow", "sin", "sinh", "tan", "tanh"}

compute_call(fn_name, args) ==
  CASE fn_name = "abs" -> Some(NumAbs(GetArg(args, 0)))
    [] fn_name = "ceil" -> Some(NumCeil(GetArg(args, 0)))
    [] fn_name = "floor" -> Some(NumFloor(GetArg(args, 0)))
    [] fn_name = "log" -> Some(NumLn(GetArg(args, 0)))
    [] fn_name = "max" -> Some(NumMax(GetArg(args, 0), GetArg(args, 1)))
    [] fn_name = "min" -> Some(NumMin(GetArg(args, 0), GetArg(args, 1)))
    [] fn_name = "round" -> Some(NumRound(GetArg(args, 0)))
    [] fn_name = "sign" -> Some(NumSign(GetArg(args, 0)))
    [] fn_name = "sqrt" -> Some(NumSqrt(GetArg(args, 0)))
    [] fn_name = "trunc" -> Some(NumTrunc(GetArg(args, 0)))
    [] fn_name \in UntrackedFns -> Some(UntrackedOf(GetArg(args, 0)))
    [] OTHER -> None

\* the value of an argument of a Math call
ArgValue(arg) ==
  IF arg.t = "Num" THEN NumOf(arg)
  ELSE IF Simplify(arg).t = "Num" THEN NumOf(Simplify(arg))
  ELSE NaN

IsMathMember(e) ==
  /\ e.t = "Member"
  /\ e.k[1].t = "Ident"
  /\ e.k[1].s = "Math"
  /\ e.k[2].t = "PropIdent"

\* a comparison of the symbols alone
HasInputSymbol(id, input_param) == IsSome(input_param) /\ id[1] = input_param[1][1]

\* id.to_id() == *input_param, when a parameter is bound
IsInputParam(id, input_param) == IsSome(input_param) /\ id = input_param[1]

\* the tail of Visitor::visit_mut_expr: the rewrites inside the math expression
MathRewrite(expr, st) ==
  CASE expr.t = "Ident" ->
         IF IsInputParam(IdOf(expr), st.input_param)
         THEN NumLit(st.input)
         ELSE expr
    [] IsMathMember(expr) ->
         IF IsSome(get_field(expr.k[2].s)) THEN NumLit(get_field(expr.k[2].s)[1]) ELSE expr
    [] expr.t = "Call" /\ IsMathMember(expr.k[1]) ->
         LET result == compute_call(expr.k[1].k[2].s, MapPure(ArgValue, Tail(expr.k)))
         IN IF IsSome(result) THEN NumLit(result[1]) ELSE expr
    [] OTHER -> expr

\* the fields as the children of a node see them: visit_mut_expr sets
\* is_inside_correct_expr inside an array literal, visit_mut_array_lit sets
\* is_inside_array_lit when the first element is present, visit_mut_fn_expr
\* binds the first parameter of the first function expression
MathEnter(node, st) ==
  LET st1 == IF IsExpr(node) /\ st.is_inside_array_lit
             THEN [st EXCEPT !.is_inside_correct_expr = TRUE]
             ELSE st
  IN CASE node.t = "Array" ->
            IF Len(node.k) >= 1 /\ node.k[1].t # "Hole"
            THEN [st1 EXCEPT !.is_inside_array_lit = TRUE]
            ELSE st1
       [] node.t = "FnExpr" ->
            IF /\ ~IsSome(st.input_param)
               /\ Len(node.k[1].k) >= 1
               /\ node.k[1].k[1].t = "BindingIdent"
            THEN [st1 EXCEPT !.input_param = Some(IdOf(node.k[1].k[1]))]
            ELSE st1
       [] OTHER -> st1

\* an evaluator that takes its answer field for empty at every element
AnswerAlwaysNone(st) == TRUE

\* self.answer.is_none()
AnswerIsNone(st) == ~IsSome(st.answer)

\* what the hooks do once the children r of a node are visited
MathLeave(node, st, r) ==
  LET old == st.is_inside_correct_expr
      st1 == IF node.t = "Array"
             THEN [r.st EXCEPT !.is_inside_array_lit = st.is_inside_array_lit]
             ELSE r.st
      visited == [node EXCEPT !.k = r.k]
      simplified == Simplify(visited)
      fold == /\ st.is_inside_array_lit
              /\ AnswerIsNone(st1)
              /\ st1.is_inside_correct_expr
              /\ ~old
              /\ simplified.t = "Num"
      e2 == IF fold THEN NumLit(NumOf(simplified)) ELSE visited
      st2 == IF fold THEN [st1 EXCEPT !.answer = Some(NumOf(simplified))] ELSE st1
      st3 == IF st.is_inside_array_lit THEN [st2 EXCEPT !.is_inside_correct_expr = old]
             ELSE st2
  IN IF ~IsExpr(node) THEN [n |-> visited, st |-> st1]
     ELSE IF ~st3.is_inside_correct_expr THEN [n |-> e2, st |-> st3]
     ELSE [n |-> MathRewrite(e2, st3), st |-> st3]

RECURSIVE MathVisitor(_, _)
\* Visitor::visit_mut_expr, visit_mut_array_lit and visit_mut_fn_expr over
\* the default traversal
MathVisitor(node, st) ==
  LET r == MapKids(MathVisitor, node.k, MathEnter(node, st))
  IN <<r, MathLeave(node, st, r)>>[2]

\* Visitor::new
MathVisitorNew(input) ==
  [input |-> input, input_param |-> None, is_inside_array_lit |-> FALSE,
   is_inside_correct_expr |-> FALSE, answer |-> None]

(***************************************************************************)
(* The challenge scripts.  A script is described by a record c and built   *)
(* as the tree the parser and the resolver hand to the passes; it has the  *)
(* parts of the script in TEST_DATA:                                       *)
(*   function(a){                                                          *)
(*     function x(e,s){var t=r();                                          *)
(*       return x=function(n,i){n=n-OFFSET;return t[n]},x(e,s)}            *)
(*     (function(e,s){var t=x,n=e();var i=CHECKSUM;                        *)
(*        if(i!==s)n.push(n.shift())})(r,TARGET);                          *)
(*     function r(){var e=[...];return r=function(){return e},r()}         *)
(*     var e=x;                                                            *)
(*     return[a+Math[e(K)](a/Math.PI),Object[e(K1)]({}),globalThis[e(K2)]] *)
(*   }                                                                     *)
(* Scope-ids: 1 the unresolved globals, 3 the outer function, 4 x,         *)
(* 5 the function expression in x, 6 the rotator, 7 r, 8 the function      *)
(* expression in r, 9 w, 10 h.                                             *)
(***************************************************************************)
Neg(i) == Unary("-", Lit(i))
IntExpr(i) == IF i < 0 THEN Neg(-i) ELSE Lit(i)
\* a literal written as a sum the simplifier has to fold
Unfolded(i) == Bin("+", Neg(2), IntExpr(i + 2))

\* x(k) through the alias named alias in scope ctxt
IndexerCall(alias, ctxt, k) == Call(Ident(alias, ctxt), <<Lit(k)>>)
ParseIntCall(alias, ctxt, k) ==
  Call(Ident("parseInt", UnresolvedCtxt), <<IndexerCall(alias, ctxt, k)>>)

\* parseInt(t(K0)) - parseInt(t(K1))
Checksum(c) ==
  Bin("-", ParseIntCall("t", 6, c.keys[1]), ParseIntCall("t", 6, c.keys[2]))

PushShift ==
  ExprStmt(Call(Member(Ident("n", 6), PropIdent("push")),
                <<Call(Member(Ident("n", 6), PropIdent("shift")), <<>>)>>))

IndexerAssign(c) ==
  IF c.indexer \in {"noassign", "stray"}
  THEN Assign("=", BindingIdent("n", 5), Ident("i", 5))
  ELSE Assign("=", BindingIdent("n", 5), Bin(c.op, Ident("n", 5), Lit(c.offset)))

IndexerDecl(c) ==
  FnDecl("x", 3, <<BindingIdent("e", 4), BindingIdent("s", 4)>>,
    <<VarDecl(<<Declarator(BindingIdent("t", 4),
                           IF c.indexer = "nocall" THEN Object
                           ELSE Call(Ident("r", 3), <<>>))>>),
      Return(SeqExpr(
        <<Assign("=", BindingIdent("x", 3),
                 FnExpr(<<BindingIdent("n", 5), BindingIdent("i", 5)>>,
                   <<ExprStmt(IndexerAssign(c)),
                     Return(Member(Ident("t", 4), Computed(Ident("n", 5))))>>)),
          Call(Ident("x", 3), <<Ident("e", 4), Ident("s", 4)>>)>>))>>)

RotatorStmt(c) ==
  ExprStmt(Call(
    FnExpr(<<BindingIdent("e", 6), BindingIdent("s", 6)>>,
      <<VarDecl(<<Declarator(BindingIdent("t", 6), Ident("x", 3)),
                  Declarator(BindingIdent("n", 6), Call(Ident("e", 6), <<>>))>>),
        VarDecl(<<Declarator(BindingIdent("i", 6),
                             IF c.rotator = "nonbin"
                             THEN ParseIntCall("t", 6, c.keys[1])
                             ELSE Checksum(c))>>),
        If(Bin("!==", Ident("i", 6), Ident("s", 6)), PushShift)>>),
    <<Ident("r", 3),
      IF c.rotator = "nonnum" THEN Ident("a", 3) ELSE Unfolded(c.target)>>))

\* Object(a + 1, 2): a call whose first argument is no identifier
DecoyStmt ==
  ExprStmt(Call(Ident("Object", UnresolvedCtxt),
                <<Bin("+", Ident("a", 3), Lit(1)), Lit(2)>>))

DictElems(c) ==
  MapPure(StrLit, c.dict) \o (IF c.producer = "mixed" THEN <<Lit(0)>> ELSE <<>>)

\* the producer's local is named x when the script is to use the indexer's
\* symbol in a deeper scope
ProducerLocal(c) == IF c.alias \in {"collide", "taken"} THEN "x" ELSE "e"

ProducerDecl(c) ==
  FnDecl("r", 3, <<>>,
    <<VarDecl(<<Declarator(BindingIdent(ProducerLocal(c), 7), Array(DictElems(c)))>>),
      Return(SeqExpr(
        <<Assign("=", BindingIdent("r", 3),
                 FnExpr(<<>>, <<Return(Ident(ProducerLocal(c), 7))>>)),
          Call(Ident("r", 3), <<>>)>>))>>)

\* function w(){function h(h){} var k = h; return k()}: a proxy variable of
\* a function declared inside another function declaration
NestedDecl ==
  FnDecl("w", 3, <<>>,
    <<FnDecl("h", 9, <<BindingIdent("h", 10)>>, <<>>),
      VarDecl(<<Declarator(BindingIdent("k", 9), Ident("h", 9))>>),
      Return(Call(Ident("k", 9), <<>>))>>)

\* var e = x; then, by the script, var g = e; or var [p] = x; before it, by
\* the script, var proxyFn0 = {}; or var g = e;
ProxyDecls(c) ==
  (IF c.alias = "taken"
   THEN <<VarDecl(<<Declarator(BindingIdent("proxyFn0", 3), Object)>>)>>
   ELSE <<>>)
  \o (IF c.alias = "reversed"
      THEN <<VarDecl(<<Declarator(BindingIdent("g", 3), Ident("e", 3))>>)>>
      ELSE <<>>)
  \o (IF c.alias = "nested" THEN <<NestedDecl>> ELSE <<>>)
  \o <<VarDecl(<<Declarator(BindingIdent("e", 3), Ident("x", 3))>>)>>
  \o (IF c.alias \in {"chain", "collide"}
      THEN <<VarDecl(<<Declarator(BindingIdent("g", 3), Ident("e", 3))>>)>>
      ELSE <<>>)
  \o (IF c.alias = "pattern"
      THEN <<VarDecl(<<Declarator(ArrayPat(<<BindingIdent("p", 3)>>), Ident("x", 3))>>)>>
      ELSE <<>>)

\* y = y + 1, after the indexer and outside it
StrayAssign ==
  ExprStmt(Assign("=", BindingIdent("y", UnresolvedCtxt),
                  Bin("+", Ident("y", UnresolvedCtxt), Lit(1))))

\* Math[e(K)](a / Math.PI)
MathCall(c) ==
  Call(Member(Ident("Math", UnresolvedCtxt), Computed(IndexerCall("e", 3, c.key))),
       <<Bin("/", Ident("a", 3), Member(Ident("Math", UnresolvedCtxt), PropIdent("PI")))>>)

\* a + (function(a){return a})(1): a function whose parameter has the symbol
\* of the input parameter
ShadowSum ==
  Bin("+", Ident("a", 3),
      Call(FnExpr(<<BindingIdent("a", 8)>>, <<Return(Ident("a", 8))>>), <<Lit(1)>>))

\* (function([p], a){return a}): a function expression whose first parameter
\* is a pattern
PrologueStmt ==
  ExprStmt(FnExpr(<<ArrayPat(<<BindingIdent("p", 7)>>), BindingIdent("a", 7)>>,
                  <<Return(Ident("a", 7))>>))

\* return [a + Math[e(K)](a / Math.PI), Object[e(K1)]({}), globalThis[e(K2)]];
\* by the script the first element is the call alone or the sum with the
\* shadowing function, or the second element is a + 1
AnswerReturn(c) ==
  Return(Array(
    <<IF c.answer = "call" THEN MathCall(c)
      ELSE IF c.answer = "shadow" THEN ShadowSum
      ELSE Bin("+", Ident("a", 3), MathCall(c)),
      IF c.answer = "second" THEN Bin("+", Ident("a", 3), Lit(1))
      ELSE Call(Member(Ident("Object", UnresolvedCtxt),
                       Computed(IndexerCall("e", 3, c.offset + 1))), <<Object>>),
      Member(Ident("globalThis", UnresolvedCtxt),
             Computed(IndexerCall("e", 3, c.offset + 2)))>>))

\* function(a){return [a + Math.floor(a / Math.PI), [], "mark"]}: a script
\* that is not obfuscated
PlainScript ==
  Program(<<ExprStmt(FnExpr(<<BindingIdent("a", 3)>>,
    <<Return(Array(<<Bin("+", Ident("a", 3),
                         Call(Member(Ident("Math", UnresolvedCtxt), PropIdent("floor")),
                              <<Bin("/", Ident("a", 3),
                                    Member(Ident("Math", UnresolvedCtxt),
                                           PropIdent("PI")))>>)),
                     Array(<<>>), StrLit("mark")>>))>>))>>)

Script(c) ==
  IF c.shape = "plain" THEN PlainScript
  ELSE Program((IF c.decoy = "prologue" THEN <<PrologueStmt>> ELSE <<>>) \o
       <<ExprStmt(FnExpr(<<BindingIdent("a", 3)>>,
         <<IndexerDecl(c)>>
         \o (IF c.decoy = "before" THEN <<DecoyStmt>> ELSE <<>>)
         \o (IF c.rotator = "none" THEN <<>> ELSE <<RotatorStmt(c)>>)
         \o (IF c.decoy = "after" THEN <<DecoyStmt>> ELSE <<>>)
         \o <<ProducerDecl(c)>> \o ProxyDecls(c)
         \o (IF c.indexer = "stray" THEN <<StrayAssign>> ELSE <<>>)
         \o <<AnswerReturn(c)>>))>>)

(***************************************************************************)
(* F's search for the producer, the indexer and the checksum               *)
(* (strings.rs, Visitor::visit_mut_program up to the loop)                 *)
(***************************************************************************)
Found(program, error, P, strings, index, I, expr, answer) ==
  [program |-> program, error |-> error, get_obf_strings_fn_id |-> P,
   obfuscated_strings |-> strings, index_data |-> index, index_fn_id |-> I,
   original_expr |-> expr, answer |-> answer]

\* after the third traversal r3
StringsFound3(program, r1, r2, r3) ==
  IF ~IsSome(r3.st.expr)
  THEN Found([program EXCEPT !.k = r3.k], Some("Array compute function not found"),
             r1.st.fn_id, r1.st.obfuscated_strings, r2.st.index, r2.st.fn_id, None, None)
  ELSE IF ~IsSome(r3.st.answer)
  THEN Found([program EXCEPT !.k = r3.k], Some("Answer not found"),
             r1.st.fn_id, r1.st.obfuscated_strings, r2.st.index, r2.st.fn_id,
             r3.st.expr, None)
  ELSE Found([program EXCEPT !.k = r3.k], None,
             r1.st.fn_id, r1.st.obfuscated_strings, r2.st.index, r2.st.fn_id,
             r3.st.expr, r3.st.answer)

\* after the second traversal r2
StringsFound2(program, r1, r2) ==
  IF ~IsSome(r2.st.index)
  THEN Found([program EXCEPT !.k = r2.k], Some("Index data not found"),
             r1.st.fn_id, r1.st.obfuscated_strings, None, None, None, None)
  ELSE IF ~IsSome(r2.st.fn_id)
  THEN Found([program EXCEPT !.k = r2.k], Some("Index function not found"),
             r1.st.fn_id, r1.st.obfuscated_strings, r2.st.index, None, None, None)
  ELSE StringsFound3(program, r1, r2,
                     MapKids(FindObfExpression, r2.k,
                             FindObfExpressionNew(r1.st.fn_id[1])))

\* after the first traversal r1
StringsFound1(program, r1) ==
  IF ~IsSome(r1.st.fn_id)
  THEN Found([program EXCEPT !.k = r1.k],
             Some("Couldn't find obfuscated strings function"),
             None, None, None, None, None, None)
  ELSE IF ~IsSome(r1.st.obfuscated_strings)
  THEN Found([program EXCEPT !.k = r1.k], Some("Couldn't find obfuscated strings"),
             r1.st.fn_id, None, None, None, None, None)
  ELSE StringsFound2(program, r1,
                     MapKids(FindIndexFunction, r1.k,
                             FindIndexFunctionNew(r1.st.fn_id[1])))

StringsFind(program) ==
  StringsFound1(program, MapKids(FindObfuscatedStrings, program.k,
                                 FindObfuscatedStringsInit))

\* the cleanup sweep over the program's children
StringsCleanup(program, index_fn_id, index_data, plaintext_strings, overflow_checks) ==
  LET r == MapKids(CleanupVisitor, program.k,
                   [index_fn_id |-> index_fn_id, index_data |-> index_data,
                    plaintext_strings |-> plaintext_strings,
                    overflow_checks |-> overflow_checks, panicked |-> FALSE])
  IN [panic |-> r.st.panicked,
      program |-> [program EXCEPT !.k = SelectKids(IsNotEmptyStmt, r.k)]]

(***************************************************************************)
(* The diagnostic buffer (shared_cursor.rs, the EmitterWriter of lib.rs):  *)
(* an error is written as its message line followed by an empty line       *)
(***************************************************************************)
Emit(buffer, message) == buffer \o <<message, "">>
IsNotEmptyLine(line) == line # ""
\* a reader of the buffer that finds no line
NoLines(buffer) == <<>>
\* split("\n").filter(|s| !s.is_empty())
ErrorLines(buffer) == SelectSeq(buffer, IsNotEmptyLine)

(***************************************************************************)
(* The token (lib.rs, generate_token): the JSON text is a sequence of      *)
(* lexical tokens, each a record of a kind, a text and a number            *)
(***************************************************************************)
JsonTok(kind, s, v) == [kind |-> kind, s |-> s, v |-> v]
Punct(s) == JsonTok("punct", s, NaN)
JsonStr(s) == JsonTok("string", s, NaN)
JsonNum(v) == JsonTok("number", "", v)
JsonNull == JsonTok("null", "null", NaN)

\* a conversion that accepts every value
AnyNumber(v) == Some(v)

\* serde_json::Number::from_f64: None for NaN and the infinities
from_f64(v) == IF IsFinite(v) THEN Some(v) ELSE None

\* Option::unwrap_or(f64::NAN)
UnwrapOrNaN(o) == IF IsSome(o) THEN o[1] ELSE NaN

\* serde_json::to_vec(&SolvedChallenge { answer, tag })
to_vec(math_answer, tag) ==
  <<Punct("{"), JsonStr("r"), Punct(":"), Punct("["),
    IF IsSome(from_f64(math_answer)) THEN JsonNum(from_f64(math_answer)[1]) ELSE JsonNull,
    Punct(","), Punct("["), Punct("]"), Punct(","), JsonStr("mark"), Punct("]"),
    Punct(","), JsonStr("t"), Punct(":"), JsonStr(tag), Punct("}")>>

\* base64::engine::general_purpose::STANDARD.encode
Base64Encode(bytes) == [base64 |-> bytes]

Ok_(v) == [ok |-> TRUE, v |-> v, error |-> "", messages |-> <<>>]
Err(error, messages) == [ok |-> FALSE, v |-> <<>>, error |-> error, messages |-> messages]

(***************************************************************************)
(* The challenges of the model                                             *)
(***************************************************************************)
MaxDict == 3
Words == {"floor", "3k", "5"}
Dicts == UNION {[1..m -> Words] : m \in 0..MaxDict}
Tags == {"eyJhbGci"}
Inputs == {Int2Num(7), Rat(-1, 2)}
KeyBase == 10

Code(shape, producer, indexer, rotator, alias, dict, op, offset, keys, target, key) ==
  [shape |-> shape, producer |-> producer, indexer |-> indexer, rotator |-> rotator,
   alias |-> alias, dict |-> dict, op |-> op, offset |-> offset, keys |-> keys,
   target |-> target, key |-> key, answer |-> "sum", decoy |-> "none"]
\* the same script with another form of the answer array
WithAnswer(code, form) == [code EXCEPT !.answer = form]
\* the same script with a call Object(a + 1, 2) before or after the rotator,
\* or with a function expression before the script's function
WithDecoy(code, place) == [code EXCEPT !.decoy = place]

Challenge(tag, input, code) ==
  [kind |-> "challenge", tag |-> tag, input |-> input, code |-> code]

\* the documented shape: every dictionary, a target some rotation reaches
\* or none does, every position of the answer key
DocumentedCodes ==
  {Code("obfuscated", "decl", "decl", "call", "one", dict, "-", KeyBase,
        <<KeyBase, KeyBase + 1>>, target, KeyBase + j) :
     dict \in Dicts, target \in {-2, 99}, j \in 0..(MaxDict - 1)}

DocumentedChallenges ==
  {Challenge(tag, input, code) :
     tag \in Tags, input \in Inputs, code \in DocumentedCodes}

\* the dictionary of the scripts below: the checksum is -2 after one rotation
BaseDict == <<"floor", "3k", "5">>
BaseKeys == <<KeyBase, KeyBase + 1>>
Variant(shape, producer, indexer, rotator, alias) ==
  Code(shape, producer, indexer, rotator, alias, BaseDict, "-", KeyBase, BaseKeys, -2,
       KeyBase + 2)

\* scripts off the documented shape: a fragment missing or malformed, more
\* proxy variables, a source that does not parse
VariantCodes ==
  {Variant("plain", "decl", "decl", "call", "one"),
   Variant("unparseable", "decl", "decl", "call", "one"),
   Variant("obfuscated", "mixed", "decl", "call", "one"),
   Variant("obfuscated", "decl", "noassign", "call", "one"),
   Variant("obfuscated", "decl", "nocall", "call", "one"),
   Variant("obfuscated", "decl", "stray", "call", "one"),
   Variant("obfuscated", "decl", "decl", "none", "one"),
   Variant("obfuscated", "decl", "decl", "nonbin", "one"),
   Variant("obfuscated", "decl", "decl", "nonnum", "one"),
   Variant("obfuscated", "decl", "decl", "call", "chain"),
   Variant("obfuscated", "decl", "decl", "call", "collide"),
   Variant("obfuscated", "decl", "decl", "call", "pattern"),
   Variant("obfuscated", "decl", "decl", "call", "taken"),
   Variant("obfuscated", "decl", "decl", "call", "reversed"),
   Variant("obfuscated", "decl", "decl", "call", "nested"),
   WithAnswer(Variant("obfuscated", "decl", "decl", "call", "one"), "call"),
   WithAnswer(Variant("obfuscated", "decl", "decl", "call", "one"), "second"),
   WithAnswer(Code("obfuscated", "decl", "decl", "call", "one", BaseDict, "-", KeyBase,
                   BaseKeys, -2, KeyBase), "second"),
   WithDecoy(Variant("obfuscated", "decl", "decl", "call", "one"), "before"),
   WithDecoy(Variant("obfuscated", "decl", "decl", "call", "one"), "after"),
   WithDecoy(Variant("obfuscated", "decl", "decl", "call", "one"), "prologue"),
   WithAnswer(Variant("obfuscated", "decl", "decl", "call", "one"), "shadow"),
   WithAnswer(Variant("obfuscated", "decl", "noassign", "call", "one"), "shadow")}

\* scripts of the documented shape whose keys or index data make get_index
\* leave the range of the dictionary: a checksum key below the offset, an
\* answer key below the offset, a division by zero
ArithmeticCodes ==
  {Code("obfuscated", "decl", "decl", "call", "one", BaseDict, "-", KeyBase,
        <<KeyBase - 1, KeyBase + 1>>, -2, KeyBase + 2),
   Code("obfuscated", "decl", "decl", "call", "one", BaseDict, "-", KeyBase,
        BaseKeys, -2, KeyBase - 1),
   Code("obfuscated", "decl", "decl", "call", "one", BaseDict, "/", 0,
        BaseKeys, -2, KeyBase + 2)}

\* a + Math.log(a / Math.PI) for a = 0
LogChallenge ==
  Challenge("eyJhbGci", Int2Num(0),
            Code("obfuscated", "decl", "decl", "call", "one", <<"log", "3k", "5">>,
                 "-", KeyBase, BaseKeys, -2, KeyBase + 2))

VariantChallenges ==
  {Challenge(tag, Int2Num(7), code) :
     tag \in Tags, code \in VariantCodes \cup ArithmeticCodes}
  \cup {LogChallenge}

\* data that is not base64, or not the JSON of a challenge
BadData ==
  {[kind |-> k, tag |-> "", input |-> NaN, code |-> <<>>] :
     k \in {"not_base64", "not_json"}}

(***************************************************************************)
(* generate_token as a function of its argument and the build.  A result   *)
(* holds whether the run panicked, the lines the passes emitted and what   *)
(* was returned.                                                           *)
(***************************************************************************)
\* the loop of strings::Visitor::visit_mut_program, from the dictionary
\* strings on; f is what the three searches found
RECURSIVE StringsLoop(_, _, _)
\* the body of the loop after the evaluation e of the checksum
StringsLoopBody(f, strings, e, overflow_checks) ==
  IF e.panic THEN [panic |-> TRUE, error |-> None, strings |-> strings]
  ELSE IF ChecksumMatches(e.expr, f.answer[1])
  THEN [panic |-> FALSE, error |-> None, strings |-> strings]
  ELSE IF strings = <<>>
  THEN [panic |-> FALSE, error |-> Some("Obfuscated strings are empty"),
        strings |-> strings]
  ELSE IF Rotate(strings) = f.obfuscated_strings[1]
  THEN [panic |-> FALSE, error |-> Some("Failed to compute obfuscated strings"),
        strings |-> Rotate(strings)]
  ELSE StringsLoop(f, Rotate(strings), overflow_checks)
StringsLoop(f, strings, overflow_checks) ==
  CHOOSE r \in {StringsLoopBody(f, strings, e, overflow_checks) :
                  e \in {EvalChecksum(f.original_expr[1], f.index_data[1], strings,
                                      overflow_checks)}} : TRUE

Passed(program, errors, panic) ==
  [program |-> program, errors |-> errors, panic |-> panic]
\* after the loop l
StringsLooped(f, l, overflow_checks) ==
  IF l.panic THEN Passed(f.program, <<>>, TRUE)
  ELSE IF IsSome(l.error) THEN Passed(f.program, <<l.error[1]>>, FALSE)
  ELSE CHOOSE r \in {Passed(c.program, <<>>, c.panic) :
                       c \in {StringsCleanup(f.program, f.index_fn_id[1], f.index_data[1],
                                             l.strings, overflow_checks)}} : TRUE
\* after the three searches f
StringsSearched(f, overflow_checks) ==
  IF IsSome(f.error) THEN Passed(f.program, <<f.error[1]>>, FALSE)
  ELSE CHOOSE r \in {StringsLooped(f, l, overflow_checks) :
                       l \in {StringsLoop(f, f.obfuscated_strings[1], overflow_checks)}} :
         TRUE
\* strings::Visitor::visit_mut_program: the program it leaves, the errors
\* it hands to the handler, whether it panicked
StringsVisitor(program, overflow_checks) ==
  CHOOSE r \in {StringsSearched(f, overflow_checks) : f \in {StringsFind(program)}} : TRUE

RECURSIVE EmitAll(_, _)
EmitAll(buffer, messages) ==
  IF messages = <<>> THEN buffer
  ELSE EmitAll(Emit(buffer, Head(messages)), Tail(messages))

\* the end of generate_answer, from the buffer and the math visitor
AnswerOf(buffer, answer) ==
  IF ErrorLines(buffer) # <<>>
  THEN Err("TransformErrors", ErrorLines(buffer))
  ELSE Ok_(answer)
\* the end of generate_token, from what generate_answer returned
TokenResult(generated, tag) ==
  IF generated.ok
  THEN Ok_(Base64Encode(to_vec(UnwrapOrNaN(generated.v), tag)))
  ELSE Err(generated.error, generated.messages)

Ran(panic, buffer, result) == [panic |-> panic, buffer |-> buffer, result |-> result]
GenerateAnswerPassed(input, s) ==
  IF s.panic THEN Ran(TRUE, <<>>, None)
  ELSE Ran(FALSE, EmitAll(<<>>, s.errors),
           Some(AnswerOf(EmitAll(<<>>, s.errors),
                         MathVisitor(ComputedMemberExpr(s.program),
                                     MathVisitorNew(input)).st.answer)))
GenerateAnswer(input, code, overflow_checks) ==
  IF code.shape = "unparseable" THEN Ran(FALSE, <<>>, Some(Err("ParseError", <<>>)))
  ELSE GenerateAnswerPassed(input,
         StringsVisitor(ProxyVars(Simplify(Script(code))), overflow_checks))
GenerateTokenReturned(g, tag) ==
  IF g.panic THEN g ELSE Ran(FALSE, g.buffer, Some(TokenResult(g.result[1], tag)))
GenerateToken(d, overflow_checks) ==
  IF d.kind # "challenge" THEN Ran(FALSE, <<>>, Some(Err("DecodeDataError", <<>>)))
  ELSE GenerateTokenReturned(GenerateAnswer(d.input, d.code, overflow_checks), d.tag)

(***************************************************************************)
(* Two threads call generate_token.  Each call makes its own SharedCursor  *)
(* and Handler; compiler.transform makes the handler the thread's HANDLER  *)
(* for the time of the passes, and the passes emit through HANDLER.        *)
(***************************************************************************)
Threads == {1, 2}
KeyUnderflow ==
  Code("obfuscated", "decl", "decl", "call", "one", BaseDict, "-", KeyBase,
       <<KeyBase - 1, KeyBase + 1>>, -2, KeyBase + 2)
NoMatch ==
  Code("obfuscated", "decl", "decl", "call", "one", BaseDict, "-", KeyBase,
       BaseKeys, 99, KeyBase + 2)
ParallelChallenges ==
  {Challenge(tag, Int2Num(7), code) :
     tag \in Tags,
     code \in {Variant("obfuscated", "decl", "decl", "call", "one"),
               Variant("obfuscated", "decl", "decl", "none", "one"),
               Variant("obfuscated", "decl", "noassign", "call", "one"),
               Variant("unparseable", "decl", "decl", "call", "one"),
               NoMatch, KeyUnderflow}}
  \cup {d \in BadData : d.kind = "not_json"}

Run(d) ==
  [data |-> d, pc |-> "start", program |-> Program(<<>>), math_answer |-> None,
   generated |-> None, result |-> None]

\* HANDLER.set and the reset at the end of its scope: HANDLER is a
\* thread-local
SetGlobalHandler(handler, t, h) == [u \in DOMAIN handler |-> h]
SetHandler(handler, t, h) == [handler EXCEPT ![t] = h]

VARIABLES
  data,                         \* the argument of generate_token
  overflow_checks,              \* the build's overflow-checks setting
  pc,                           \* where the driver is
  program,                      \* the tree the passes rewrite
  err_dst,                      \* the diagnostic buffer
  transforms,                   \* the passes applied so far, in order
  get_obf_strings_fn_id,
  obfuscated_strings,
  original_obfuscated_strings,
  index_data,
  index_fn_id,
  original_expr,
  answer,
  evaluations,                  \* checksum evaluations of the rotation loop
  rotations,                    \* rotations of the rotation loop
  math_answer,                  \* math_expr_visitor.answer
  generated,                    \* what generate_answer returned
  result,                       \* what generate_token returned
  compute,                      \* a call of get_index on its own
  math_call,                    \* a call of compute_call on its own
  threads                       \* generate_answer on two threads

fields == <<get_obf_strings_fn_id, obfuscated_strings, original_obfuscated_strings,
            index_data, index_fn_id, original_expr, answer>>
counters == <<evaluations, rotations>>
aux == <<compute, math_call, threads>>
main == <<data, pc, program, err_dst, transforms, fields, counters,
          math_answer, generated, result>>
vars == <<main, overflow_checks, aux>>

Start ==
  /\ pc = "start"
  /\ program = Program(<<>>)
  /\ err_dst = <<>>
  /\ transforms = <<>>
  /\ get_obf_strings_fn_id = None
  /\ obfuscated_strings = None
  /\ original_obfuscated_strings = None
  /\ index_data = None
  /\ index_fn_id = None
  /\ original_expr = None
  /\ answer = None
  /\ evaluations = 0
  /\ rotations = 0
  /\ math_answer = None
  /\ generated = None
  /\ result = None

\* every challenge is run in a build with and in a build without overflow
\* checks
Init ==
  /\ data \in DocumentedChallenges \cup VariantChallenges \cup BadData
  /\ overflow_checks \in BOOLEAN
  /\ Start
  /\ compute = <<>>
  /\ math_call = <<>>
  /\ threads = <<>>

\* decode_data
DecodeData ==
  /\ pc = "start"
  /\ IF data.kind = "challenge"
     THEN pc' = "decoded" /\ result' = result
     ELSE pc' = "done" /\ result' = Some(Err("DecodeDataError", <<>>))
  /\ UNCHANGED <<aux, data, overflow_checks, program, err_dst, transforms, fields, counters,
                 math_answer, generated>>

\* compiler.parse_js
ParseJs ==
  /\ pc = "decoded"
  /\ IF data.code.shape = "unparseable"
     THEN /\ pc' = "returned"
          /\ generated' = Some(Err("ParseError", <<>>))
          /\ program' = program
     ELSE /\ pc' = "parsed"
          /\ generated' = generated
          /\ program' = Script(data.code)
  /\ UNCHANGED <<aux, data, overflow_checks, err_dst, transforms, fields, counters,
                 math_answer, result>>

\* expr_simplifier, then resolver (the scope-ids are those of Script)
ExprSimplifier ==
  /\ pc = "parsed"
  /\ program' = Simplify(program)
  /\ transforms' = transforms \o <<"expr_simplifier", "resolver">>
  /\ pc' = "proxy_vars"
  /\ UNCHANGED <<aux, data, overflow_checks, err_dst, fields, counters, math_answer,
                 generated, result>>

\* deobfuscate::proxy_vars::Visitor
ProxyVarsPass ==
  /\ pc = "proxy_vars"
  /\ program' = ProxyVars(program)
  /\ transforms' = Append(transforms, "proxy_vars")
  /\ pc' = "strings"
  /\ UNCHANGED <<aux, data, overflow_checks, err_dst, fields, counters, math_answer,
                 generated, result>>

\* deobfuscate::strings::Visitor, up to the loop
StringsFindPass ==
  /\ pc = "strings"
  /\ \E f \in {StringsFind(program)} :
        /\ program' = f.program
        /\ get_obf_strings_fn_id' = f.get_obf_strings_fn_id
        /\ obfuscated_strings' = f.obfuscated_strings
        /\ original_obfuscated_strings' = f.obfuscated_strings
        /\ index_data' = f.index_data
        /\ index_fn_id' = f.index_fn_id
        /\ original_expr' = f.original_expr
        /\ answer' = f.answer
        /\ IF IsSome(f.error)
           THEN err_dst' = Emit(err_dst, f.error[1]) /\ pc' = "computed_member_expr"
           ELSE err_dst' = err_dst /\ pc' = "evaluate"
  /\ transforms' = Append(transforms, "strings")
  /\ UNCHANGED <<aux, data, overflow_checks, counters, math_answer, generated, result>>

\* the loop's body up to the comparison with the answer
StringsEvaluate ==
  /\ pc = "evaluate"
  /\ evaluations' = evaluations + 1
  /\ \E e \in {EvalChecksum(original_expr[1], index_data[1], obfuscated_strings[1],
                              overflow_checks)} :
        pc' = IF e.panic THEN "panicked"
              ELSE IF ChecksumMatches(e.expr, answer[1]) THEN "cleanup"
              ELSE "rotate"
  /\ UNCHANGED <<aux, data, overflow_checks, program, err_dst, transforms, fields, rotations,
                 math_answer, generated, result>>

\* the loop's body after a failed comparison
StringsRotate ==
  /\ pc = "rotate"
  /\ IF obfuscated_strings[1] = <<>>
     THEN /\ err_dst' = Emit(err_dst, "Obfuscated strings are empty")
          /\ pc' = "computed_member_expr"
          /\ UNCHANGED <<obfuscated_strings, rotations>>
     ELSE /\ obfuscated_strings' = Some(Rotate(obfuscated_strings[1]))
          /\ rotations' = rotations + 1
          /\ IF Rotate(obfuscated_strings[1]) = original_obfuscated_strings[1]
             THEN /\ err_dst' = Emit(err_dst, "Failed to compute obfuscated strings")
                  /\ pc' = "computed_member_expr"
             ELSE /\ err_dst' = err_dst
                  /\ pc' = "evaluate"
  /\ UNCHANGED <<aux, data, overflow_checks, program, transforms, get_obf_strings_fn_id,
                 original_obfuscated_strings, index_data, index_fn_id, original_expr,
                 answer, evaluations, math_answer, generated, result>>

\* the cleanup sweep
StringsCleanupPass ==
  /\ pc = "cleanup"
  /\ \E c \in {StringsCleanup(program, index_fn_id[1], index_data[1],
                                obfuscated_strings[1], overflow_checks)} :
        /\ program' = c.program
        /\ pc' = IF c.panic THEN "panicked" ELSE "computed_member_expr"
  /\ UNCHANGED <<aux, data, overflow_checks, err_dst, transforms, fields, counters,
                 math_answer, generated, result>>

\* a driver whose chain leaves the computed-member rewriter out
WithoutComputedMemberExpr ==
  /\ pc = "computed_member_expr"
  /\ pc' = "math_expr"
  /\ UNCHANGED <<aux, data, overflow_checks, program, err_dst, transforms, fields, counters,
                 math_answer, generated, result>>

\* deobfuscate::computed_member_expr::Visitor
ComputedMemberExprPass ==
  /\ pc = "computed_member_expr"
  /\ program' = ComputedMemberExpr(program)
  /\ transforms' = Append(transforms, "computed_member_expr")
  /\ pc' = "math_expr"
  /\ UNCHANGED <<aux, data, overflow_checks, err_dst, fields, counters, math_answer,
                 generated, result>>

\* deobfuscate::math_expr::Visitor, and `answer = math_expr_visitor.answer`
MathExprPass ==
  /\ pc = "math_expr"
  /\ \E r \in {MathVisitor(program, MathVisitorNew(data.input))} :
        /\ program' = r.n
        /\ math_answer' = r.st.answer
  /\ transforms' = Append(transforms, "math_expr")
  /\ pc' = "transformed"
  /\ UNCHANGED <<aux, data, overflow_checks, err_dst, fields, counters, generated, result>>

\* the end of generate_answer: the emitted errors, or the answer
GenerateAnswerReturn ==
  /\ pc = "transformed"
  /\ generated' = IF ErrorLines(err_dst) # <<>>
                  THEN Some(Err("TransformErrors", ErrorLines(err_dst)))
                  ELSE Some(Ok_(math_answer))
  /\ pc' = "returned"
  /\ UNCHANGED <<aux, data, overflow_checks, program, err_dst, transforms, fields, counters,
                 math_answer, result>>

\* the rest of generate_token
GenerateTokenReturn ==
  /\ pc = "returned"
  /\ result' = IF generated[1].ok
               THEN Some(Ok_(Base64Encode(to_vec(UnwrapOrNaN(generated[1].v), data.tag))))
               ELSE Some(Err(generated[1].error, generated[1].messages))
  /\ pc' = "done"
  /\ UNCHANGED <<aux, data, overflow_checks, program, err_dst, transforms, fields, counters,
                 math_answer, generated>>

Next ==
  \/ DecodeData
  \/ ParseJs
  \/ ExprSimplifier
  \/ ProxyVarsPass
  \/ StringsFindPass
  \/ StringsEvaluate
  \/ StringsRotate
  \/ StringsCleanupPass
  \/ ComputedMemberExprPass
  \/ MathExprPass
  \/ GenerateAnswerReturn
  \/ GenerateTokenReturn

Spec == Init /\ [][Next]_vars

(***************************************************************************)
(* get_index on its own: a key, an offset and an operator are drawn, and   *)
(* the function is applied to them in a build with and in a build without  *)
(* overflow checks.                                                        *)
(***************************************************************************)
MinSigned == (0 - MaxSigned) - 1
\* u32 values as their 32-bit patterns: 2^31 is MinSigned, 2^32 - 1 is -1
U32Samples ==
  {0, 1, 2, 3, U32Bits - 1, U32Bits, U32Bits + 1, Limb - 1, Limb,
   MaxSigned, MinSigned, -2, -1}
BinaryOps == {"<<", ">>", ">>>", "+", "-", "*", "/", "%", "|", "^", "&", "**"}
NoData == [kind |-> "none", tag |-> "", input |-> NaN, code |-> <<>>]

ComputeInit ==
  /\ data = NoData
  /\ overflow_checks \in BOOLEAN
  /\ Start
  /\ compute \in [index : U32Samples, offset : U32Samples,
                  op : BinaryOps \cup {"=="}, out : {None}]
  /\ math_call = <<>>
  /\ threads = <<>>

GetIndex ==
  /\ compute.out = None
  /\ compute' = [compute EXCEPT
       !.out = Some(get_index(compute.index, compute.offset, compute.op,
                              overflow_checks))]
  /\ UNCHANGED <<main, overflow_checks, math_call, threads>>

ComputeNext == GetIndex

ComputeSpec == ComputeInit /\ [][ComputeNext]_vars

(***************************************************************************)
(* compute_call on its own: a function name and up to two arguments are   *)
(* drawn, and the function is applied to them.                             *)
(***************************************************************************)
MaxArgs == 2
ArgSamples ==
  {NaN, PosInf, NegInf, Int2Num(0), Int2Num(1), Int2Num(-1), Int2Num(7),
   Rat(1, 2), Rat(-1, 2)}
CallNames == {"sign", "abs", "floor", "trunc", "max", "random"}

MathInit ==
  /\ data = NoData
  /\ overflow_checks = FALSE
  /\ Start
  /\ compute = <<>>
  /\ math_call \in [fn_name : CallNames,
                    args : UNION {[1..m -> ArgSamples] : m \in 0..MaxArgs},
                    out : {None}]
  /\ threads = <<>>

ComputeCall ==
  /\ math_call.out = None
  /\ math_call' = [math_call EXCEPT
       !.out = Some(compute_call(math_call.fn_name, math_call.args))]
  /\ UNCHANGED <<main, overflow_checks, compute, threads>>

MathNext == ComputeCall

MathSpec == MathInit /\ [][MathNext]_vars

ParInit ==
  /\ data = NoData
  /\ overflow_checks \in BOOLEAN
  /\ Start
  /\ compute = <<>>
  /\ math_call = <<>>
  /\ \E d1 \in ParallelChallenges : \E d2 \in ParallelChallenges \ {d1} :
        threads = [run |-> [t \in Threads |-> Run(IF t = 1 THEN d1 ELSE d2)],
                   handler |-> [t \in Threads |-> None],
                   cursors |-> [t \in Threads |-> <<>>]]

\* decode_data; generate_answer up to the transform: SharedCursor::new,
\* the handler on it, parse_js
ParBegin(t) ==
  /\ threads.run[t].pc = "start"
  /\ threads' =
       IF threads.run[t].data.kind # "challenge"
       THEN [threads EXCEPT !.run[t].pc = "done",
                            !.run[t].result = Some(Err("DecodeDataError", <<>>))]
       ELSE IF threads.run[t].data.code.shape = "unparseable"
       THEN [threads EXCEPT !.run[t].pc = "returned",
                            !.run[t].generated = Some(Err("ParseError", <<>>)),
                            !.cursors[t] = <<>>]
       ELSE [threads EXCEPT !.run[t].pc = "parsed",
                            !.run[t].program = Script(threads.run[t].data.code),
                            !.cursors[t] = <<>>]
  /\ UNCHANGED <<main, overflow_checks, compute, math_call>>

\* compiler.transform sets HANDLER; expr_simplifier, resolver, proxy_vars
ParEnter(t) ==
  /\ threads.run[t].pc = "parsed"
  /\ \E simplified \in {Simplify(threads.run[t].program)} :
        threads' =
          [threads EXCEPT !.handler = SetHandler(threads.handler, t, Some(t)),
                          !.run[t].program = ProxyVars(simplified),
                          !.run[t].pc = "strings"]
  /\ UNCHANGED <<main, overflow_checks, compute, math_call>>

\* the strings pass; HANDLER.with panics where HANDLER is not set
ParStrings(t) ==
  /\ threads.run[t].pc = "strings"
  /\ \E s \in {StringsVisitor(threads.run[t].program, overflow_checks)} :
        threads' =
          IF s.panic \/ (s.errors # <<>> /\ ~IsSome(threads.handler[t]))
          THEN [threads EXCEPT !.run[t].pc = "panicked"]
          ELSE IF s.errors # <<>>
          THEN [threads EXCEPT
                  !.cursors[threads.handler[t][1]] =
                     EmitAll(threads.cursors[threads.handler[t][1]], s.errors),
                  !.run[t].program = s.program,
                  !.run[t].pc = "computed_member_expr"]
          ELSE [threads EXCEPT !.run[t].program = s.program,
                               !.run[t].pc = "computed_member_expr"]
  /\ UNCHANGED <<main, overflow_checks, compute, math_call>>

\* computed_member_expr, math_expr, the end of HANDLER's scope
ParLeave(t) ==
  /\ threads.run[t].pc = "computed_member_expr"
  /\ \E p \in {ComputedMemberExpr(threads.run[t].program)} :
     \E m \in {MathVisitor(p, MathVisitorNew(threads.run[t].data.input))} :
        threads' =
          [threads EXCEPT !.handler = SetHandler(threads.handler, t, None),
                          !.run[t].program = m.n,
                          !.run[t].math_answer = m.st.answer,
                          !.run[t].pc = "transformed"]
  /\ UNCHANGED <<main, overflow_checks, compute, math_call>>

\* the end of generate_answer: the lines of the call's own cursor
ParCollect(t) ==
  /\ threads.run[t].pc = "transformed"
  /\ threads' =
       [threads EXCEPT
          !.run[t].generated =
             Some(AnswerOf(threads.cursors[t], threads.run[t].math_answer)),
          !.run[t].pc = "returned"]
  /\ UNCHANGED <<main, overflow_checks, compute, math_call>>

\* the rest of generate_token
ParReturn(t) ==
  /\ threads.run[t].pc = "returned"
  /\ threads' =
       [threads EXCEPT
          !.run[t].result =
             Some(TokenResult(threads.run[t].generated[1], threads.run[t].data.tag)),
          !.run[t].pc = "done"]
  /\ UNCHANGED <<main, overflow_checks, compute, math_call>>

ParNext ==
  \E t \in Threads :
    \/ ParBegin(t)
    \/ ParEnter(t)
    \/ ParStrings(t)
    \/ ParLeave(t)
    \/ ParCollect(t)
    \/ ParReturn(t)

ParSpec == ParInit /\ [][ParNext]_vars

(***************************************************************************)
(* Reference definitions the properties are stated with: what the script   *)
(* of a challenge computes, read off the challenge itself                  *)
(***************************************************************************)
\* the dictionary rotated left n times
RotateBy(strings, n) ==
  [i \in 1..Len(strings) |-> strings[((i - 1 + n) % Len(strings)) + 1]]

\* parseInt of the words of the dictionaries; None stands for NaN
RefParseInt(w) ==
  CASE w = "3k" -> Some(3)
    [] w = "5" -> Some(5)
    [] OTHER -> None

\* the index the indexer computes from a key; None when it has no value
RefIndex(k, offset, op) ==
  CASE op = "-" -> Some(k - offset)
    [] op = "+" -> Some(k + offset)
    [] op = "/" -> IF offset = 0 THEN None ELSE Some(k \div offset)
    [] OTHER -> None

\* I(k) for the dictionary strings; None when there is no such string
RefString(strings, k, offset, op) ==
  LET i == RefIndex(k, offset, op)
  IN IF IsSome(i) /\ i[1] >= 0 /\ i[1] < Len(strings) THEN Some(strings[i[1] + 1])
     ELSE None

\* parseInt(I(k)); None stands for NaN
RefTerm(strings, k, offset, op) ==
  LET w == RefString(strings, k, offset, op)
  IN IF IsSome(w) THEN RefParseInt(w[1]) ELSE None

\* parseInt(I(K0)) - parseInt(I(K1)); None stands for NaN
RefChecksum(strings, keys, offset, op) ==
  LET a == RefTerm(strings, keys[1], offset, op)
      b == RefTerm(strings, keys[2], offset, op)
  IN IF IsSome(a) /\ IsSome(b) THEN Some(a[1] - b[1]) ELSE None

\* the rotations of the challenge's dictionary at which the checksum is the target
MatchingRotations(c) ==
  {n \in 0..(Len(c.dict) - 1) :
     RefChecksum(RotateBy(c.dict, n), c.keys, c.offset, c.op) = Some(c.target)}

FirstMatch(c) == CHOOSE n \in MatchingRotations(c) : \A m \in MatchingRotations(c) : n <= m

\* the string the answer key resolves to at the matching rotation
RefWord(c) == RefString(RotateBy(c.dict, FirstMatch(c)), c.key, c.offset, c.op)

MathFunctions == {"floor", "abs", "log"}
RefMath(w, v) ==
  CASE w = "floor" -> NumFloor(v)
    [] w = "abs" -> NumAbs(v)
    [] w = "log" -> NumLn(v)

\* a + Math[w](a / Math.PI)
RefAnswer(input, w) == NumAdd(input, RefMath(w, NumDiv(input, MathPI)))

\* the script has every fragment F looks for, as the documented shape has
HasAllFragments(c) ==
  /\ c.shape = "obfuscated"
  /\ c.producer = "decl"
  /\ c.indexer = "decl"
  /\ c.rotator = "call"

\* the documented shape, with a checksum that matches at some rotation and
\* an answer key that resolves to a function of Math
DocumentedShape(d) ==
  /\ d.kind = "challenge"
  /\ HasAllFragments(d.code)
  /\ d.code.alias = "one"
  /\ d.code.answer = "sum"
  /\ d.code.decoy = "none"
  /\ MatchingRotations(d.code) # {}
  /\ IsSome(RefWord(d.code))
  /\ RefWord(d.code)[1] \in MathFunctions

\* base64 decoding, and the reading of the JSON text of a token
Base64Decode(text) == text.base64
JsonParse(toks) ==
  IF /\ Len(toks) = 16
     /\ <<toks[1], toks[3], toks[4], toks[6], toks[7], toks[8], toks[9], toks[11],
          toks[12], toks[14], toks[16]>>
        = <<Punct("{"), Punct(":"), Punct("["), Punct(","), Punct("["), Punct("]"),
            Punct(","), Punct("]"), Punct(","), Punct(":"), Punct("}")>>
     /\ toks[2] = JsonStr("r")
     /\ toks[13] = JsonStr("t")
     /\ toks[5].kind \in {"number", "null"}
     /\ toks[10].kind = "string"
     /\ toks[15].kind = "string"
  THEN Some([r |-> <<IF toks[5].kind = "number" THEN Some(toks[5].v) ELSE None,
                     <<>>, toks[10].s>>,
             t |-> toks[15].s])
  ELSE None

\* the JSON value of a number: None stands for null
JsonOf(v) == IF IsFinite(v) THEN Some(v) ELSE None

TokenOf(res) == JsonParse(Base64Decode(res.v))

\* the calls of the indexer left in a program
IsIndexerCall(n) ==
  /\ n.t = "Call"
  /\ n.k[1].t = "Ident"
  /\ IsSome(index_fn_id)
  /\ IdOf(n.k[1]) = index_fn_id[1]
IndexerCalls(p) == {n \in NodeSet(p) : IsIndexerCall(n)}

\* F has left the loop in MATCH and swept the program
MatchCompleted == pc = "computed_member_expr" /\ err_dst = <<>>

\* the checksum evaluation of the loop has aborted
LoopAborted ==
  /\ pc = "panicked"
  /\ EvalChecksum(original_expr[1], index_data[1], obfuscated_strings[1],
                  overflow_checks).panic

(***************************************************************************)
(* Properties                                                              *)
(***************************************************************************)

\* C1: for a challenge of the documented shape, generate_token does not
\* abort and returns a token with no diagnostic emitted, and the first
\* element of r is the value of a + Math[I(c)](a / Math.PI) for the input
\* and the dictionary string at the first matching rotation.
C1_DocumentedChallengeSolved ==
  DocumentedShape(data) =>
    /\ pc # "panicked"
    /\ pc = "done" =>
         /\ result[1].ok
         /\ err_dst = <<>>
         /\ IsSome(TokenOf(result[1]))
         /\ TokenOf(result[1])[1].r[1]
              = JsonOf(RefAnswer(data.input, RefWord(data.code)[1]))

C1_Witness ==
  /\ DocumentedShape(data)
  /\ pc = "done"
  /\ rotations > 0
  /\ result[1].ok
  /\ TokenOf(result[1])[1].r[1] = Some(Int2Num(9))

\* C2: when generate_answer returned Ok (the source parsed and no pass
\* emitted a diagnostic), generate_token returns a token that decodes to
\* {"r": [x, [], "mark"], "t": tag} with the challenge's tag, x the recorded
\* answer when it is finite and null when it is absent or not finite.
C2_TokenShape ==
  (pc = "done" /\ IsSome(generated) /\ generated[1].ok) =>
    /\ result[1].ok
    /\ TokenOf(result[1])
         = Some([r |-> <<IF IsSome(math_answer) /\ IsFinite(math_answer[1])
                         THEN math_answer ELSE None,
                         <<>>, "mark">>,
                 t |-> data.tag])

C2_Witness ==
  /\ pc = "done"
  /\ IsSome(generated)
  /\ generated[1].ok
  /\ math_answer = None
  /\ result[1].ok
  /\ TokenOf(result[1])[1].r[1] = None

\* C3: generate_answer returns Ok only when the source parsed and the
\* diagnostic buffer is empty after every pass has run; when a pass emitted
\* an error it returns Err(TransformErrors) with the emitted messages, the
\* math evaluator having run all the same, and no pass has run twice.
C3_OkOnlyWithoutDiagnostics ==
  /\ Cardinality({transforms[i] : i \in 1..Len(transforms)}) = Len(transforms)
  /\ (pc \in {"returned", "done"} /\ IsSome(generated)) =>
       /\ generated[1].ok =>
            /\ data.code.shape # "unparseable"
            /\ err_dst = <<>>
            /\ transforms[Len(transforms)] = "math_expr"
       /\ err_dst # <<>> =>
            /\ generated[1] = Err("TransformErrors", ErrorLines(err_dst))
            /\ generated[1].messages # <<>>
            /\ transforms[Len(transforms)] = "math_expr"

C3_Witness ==
  /\ pc = "returned"
  /\ generated[1] = Err("TransformErrors", <<"Couldn't find obfuscated strings function">>)
  /\ math_answer = Some(Int2Num(9))

\* C4 (as the code has it): the driver applies expr_simplifier, resolver,
\* E (proxy_vars), F (strings), D (computed_member_expr), G (math_expr) in
\* this order; D runs once, after F and before G.
PassOrder ==
  <<"expr_simplifier", "resolver", "proxy_vars", "strings", "computed_member_expr",
    "math_expr">>
C4_PassOrder ==
  /\ \E n \in 0..Len(PassOrder) : transforms = SubSeq(PassOrder, 1, n)
  /\ pc = "transformed" => transforms = PassOrder

C4_Witness == pc = "transformed" /\ transforms = PassOrder /\ err_dst = <<>>

\* C4 as stated: the passes run in the order D, E, F, D, G.
IsSpecPass(name) == name \in {"computed_member_expr", "proxy_vars", "strings", "math_expr"}
PassLetter(name) ==
  CASE name = "computed_member_expr" -> "D"
    [] name = "proxy_vars" -> "E"
    [] name = "strings" -> "F"
    [] name = "math_expr" -> "G"
PassLetters(names) ==
  LET kept == SelectSeq(names, IsSpecPass)
  IN [i \in 1..Len(kept) |-> PassLetter(kept[i])]
C4_OrderDEFDG ==
  pc = "transformed" => PassLetters(transforms) = <<"D", "E", "F", "D", "G">>

\* C5 as stated: the rotation loop ends after at most |D0| checksum
\* evaluations and at most |D0| rotations, in MATCH or in an emitted error.
C5_LoopBounded ==
  IsSome(original_obfuscated_strings) =>
    /\ evaluations <= Len(original_obfuscated_strings[1])
    /\ rotations <= Len(original_obfuscated_strings[1])
    /\ ~LoopAborted

\* C6: when F leaves the loop in MATCH, parseInt(I(K0)) - parseInt(I(K1))
\* for the final dictionary and F's index data is a number, no term being
\* NaN, and it is the target.
C6_MatchMeansEqual ==
  pc = "cleanup" =>
    /\ RefChecksum(obfuscated_strings[1], data.code.keys,
                   AsU32(index_data[1].offset), index_data[1].op)
         = Some(data.code.target)
    /\ answer[1] = Int2Num(data.code.target)

C6_Witness == pc = "cleanup" /\ rotations > 0

\* C7 as stated: when no rotation of D0 makes the checksum the target, F
\* emits "Failed to compute obfuscated strings" when the rotated dictionary
\* is D0 again, runs no sweep, and the driver returns an error.
C7_ExhaustedMeansFailed ==
  (data.kind = "challenge" /\ HasAllFragments(data.code)
     /\ MatchingRotations(data.code) = {}) =>
    /\ pc \notin {"panicked", "cleanup"}
    /\ pc = "done" =>
         /\ ~result[1].ok
         /\ ErrorLines(err_dst) = <<"Failed to compute obfuscated strings">>
         /\ rotations >= 1
         /\ obfuscated_strings = original_obfuscated_strings

MissingFragmentErrors(c) ==
  IF c.shape = "plain" \/ c.producer # "decl"
  THEN {"Couldn't find obfuscated strings function", "Couldn't find obfuscated strings"}
  ELSE IF c.indexer # "decl"
  THEN {"Index data not found", "Index function not found"}
  ELSE {"Array compute function not found", "Answer not found"}
C9_MissingFragmentReported ==
  (data.kind = "challenge" /\ data.code.shape # "unparseable"
     /\ ~HasAllFragments(data.code)) =>
    /\ evaluations = 0
    /\ rotations = 0
    /\ pc \notin {"evaluate", "rotate", "cleanup", "panicked"}
    /\ pc = "done" =>
         /\ ~result[1].ok
         /\ Len(ErrorLines(err_dst)) = 1
         /\ ErrorLines(err_dst)[1] \in MissingFragmentErrors(data.code)

\* C10 as stated: after E no variable declarator of the program has an
\* initializer that is a bare identifier bound to a function declaration.
FnDeclIds(p) == {IdOf(n) : n \in {m \in NodeSet(p) : m.t = "FnDecl"}}
ProxyDeclarators(p) ==
  {n \in NodeSet(p) :
     /\ n.t = "Declarator"
     /\ Len(n.k) = 2
     /\ n.k[2].t = "Ident"
     /\ IdOf(n.k[2]) \in FnDeclIds(p)}
C10_NoProxyDeclarator == pc = "strings" => ProxyDeclarators(program) = {}

\* the identifiers of a program, those of its function declarations included
IdentNodes(p) == {n \in NodeSet(p) : IsIdent(n) \/ (n.t = "FnDecl" /\ ~n.z)}
Symbols(p) == {n.s : n \in IdentNodes(p)}
\* some scope deeper than that of the identifier id uses its symbol
DeeperUse(p, id) == \E n \in IdentNodes(p) : n.s = id[1] /\ n.c > id[2]
\* the declarators var v = f of a program, f a function declaration
DirectProxies(p) ==
  {n \in NodeSet(p) :
     /\ n.t = "Declarator"
     /\ Len(n.k) = 2
     /\ n.k[1].t = "BindingIdent"
     /\ n.k[2].t = "Ident"
     /\ IdOf(n.k[2]) \in FnDeclIds(p)}
\* E's tables after its traversal of a program
ProxyTables(p) == ProxyMain(p, ProxyPrepass(p)).st
ProxyFnSymbols == {ProxyFnNames[i] : i \in 1..Len(ProxyFnNames)}

\* C11 as stated: when a deeper scope uses the symbol of the function of a
\* proxy variable, the references substituted for the variable carry a
\* symbol proxyFnN that no identifier of the program carries, and different
\* renames carry different N.
C11_FreshSymbol ==
  pc = "proxy_vars" =>
    \A d \in DirectProxies(program) :
      DeeperUse(program, IdOf(d.k[2])) =>
        LET table == ProxyTables(program).replacements
            v == IdOf(d.k[1])
        IN /\ v \in DOMAIN table
           /\ table[v][1] \in ProxyFnSymbols
           /\ table[v][1] \notin Symbols(program)
           /\ \A e \in DirectProxies(program) :
                (IdOf(e.k[1]) # v /\ DeeperUse(program, IdOf(e.k[2]))) =>
                  table[IdOf(e.k[1])][1] # table[v][1]

\* the places where two trees differ: the path of every topmost subtree of
\* a that b has changed, with the subtree and what replaced it
RECURSIVE Changes(_, _, _)
Changes(a, b, path) ==
  IF a = b THEN {}
  ELSE IF [a EXCEPT !.k = <<>>] = [b EXCEPT !.k = <<>>] /\ Len(a.k) = Len(b.k)
  THEN UNION {Changes(a.k[i], b.k[i], Append(path, i)) : i \in 1..Len(a.k)}
  ELSE {[path |-> path, old |-> a, new |-> b]}

\* the first elements of the array literals a program returns
AnswerExprs(p) ==
  {n.k[1].k[1] : n \in {m \in NodeSet(p) :
                          /\ m.t = "Return"
                          /\ m.k[1].t = "Array"
                          /\ Len(m.k[1].k) >= 1}}

\* C12 as stated: G changes the program in one place only, where it puts a
\* numeric literal for the first element of the returned array; every other
\* expression is as it was.
C12_OnlyAnswerReplaced ==
  [][pc = "math_expr" =>
       LET changes == Changes(program, program', <<>>)
       IN /\ Cardinality(changes) = 1
          /\ \A c \in changes : c.new.t = "Num" /\ c.old \in AnswerExprs(program)]_vars

\* the calls Math.fn(..) of a tree
MathCalls(e) == {n \in NodeSet(e) : n.t = "Call" /\ IsMathMember(n.k[1])}

\* C13 as stated: after G the first element of the answer array holds no
\* call of a Math function, also when it is such a call itself, and its
\* value is recorded as the answer.
C13_NoMathCallLeft ==
  (/\ pc = "transformed"
   /\ data.kind = "challenge"
   /\ HasAllFragments(data.code)
   /\ data.code.alias = "one"
   /\ MatchingRotations(data.code) # {}
   /\ IsSome(RefWord(data.code))
   /\ RefWord(data.code)[1] \in MathFunctions) =>
    /\ IsSome(math_answer)
    /\ \A e \in AnswerExprs(program) : MathCalls(e) = {}

\* the node of a tree at a path
RECURSIVE NodeAt(_, _)
NodeAt(node, path) ==
  IF path = <<>> THEN node ELSE NodeAt(node.k[Head(path)], Tail(path))
\* the path leads to an element of an array literal
IsElement(p, path) ==
  /\ path # <<>>
  /\ NodeAt(p, SubSeq(path, 1, Len(path) - 1)).t = "Array"
\* the elements of array literals that a step has replaced by a number
Folded(p, q) ==
  {c \in Changes(p, q, <<>>) : IsElement(p, c.path) /\ c.new.t = "Num"}

\* C14: in a run of G at most one element of an array literal is folded to
\* a number, and the answer G hands back is that number; an element met
\* after the answer was recorded is not folded, also when it would fold.
C14_AnswerWrittenOnce ==
  [][pc = "math_expr" =>
       LET folded == Folded(program, program')
       IN /\ Cardinality(folded) <= 1
          /\ \A c \in folded : math_answer' = Some(NumOf(c.new))]_vars

\* the first element was folded and the second, 7 + 1, was not
C14_Witness ==
  /\ pc = "transformed"
  /\ IsSome(math_answer)
  /\ \E n \in NodeSet(program) :
       /\ n.t = "Array"
       /\ Len(n.k) >= 2
       /\ n.k[1] = NumLit(math_answer[1])
       /\ n.k[2].t = "Bin"
       /\ Simplify(n.k[2]).t = "Num"

\* C15: for the program of every state (the script as parsed and as each
\* pass leaves it), applying D twice gives the program that applying D
\* once gives.
C15_Idempotent ==
  LET once == ComputedMemberExpr(program)
  IN ComputedMemberExpr(once) = once

\* D has rewritten Math["floor"] to Math.floor
C15_Witness ==
  /\ pc = "math_expr"
  /\ err_dst = <<>>
  /\ data.code.shape = "obfuscated"
  /\ \E n \in NodeSet(program) : n.t = "Member" /\ n.k[2] = PropIdent("floor")

\* the string is an identifier name: a letter, _ or $, then letters, digits,
\* _ or $
IdentifierStart ==
  {"a", "b", "c", "d", "e", "f", "g", "h", "i", "j", "k", "l", "m", "n", "o", "p",
   "q", "r", "s", "t", "u", "v", "w", "x", "y", "z", "_", "$"}
ValidIdentifier(w) ==
  LET cs == Chars(w)
  IN /\ cs # <<>>
     /\ cs[1] \in IdentifierStart
     /\ \A i \in 1..Len(cs) : cs[i] \in IdentifierStart \/ IsNumeric(cs[i])

\* C16 as stated: D changes a program only where a member access has a key
\* that is a string literal whose value is a valid identifier.
C16_OnlyValidIdentifiers ==
  [][pc = "computed_member_expr" =>
       \A c \in Changes(program, program', <<>>) :
         /\ c.old.t = "Computed"
         /\ c.old.k[1].t = "Str"
         /\ ValidIdentifier(c.old.k[1].s)]_vars

\* C18 get_index is total on u32 inputs: for every key, every offset and every
\* listed operator it returns a value without panicking, and a result outside
\* 0 .. 2^32-1 wraps modulo 2^32: the result of - plus the offset is the key,
\* the result of + minus the offset is the key, and a left shift by 32 or
\* more gives 0.
C18_ComputeTotal ==
  (compute # <<>> /\ IsSome(compute.out) /\ compute.op \in BinaryOps) =>
     LET r == compute.out[1]
         k == ToLimbs(compute.index)
         offset == ToLimbs(compute.offset)
     IN /\ ~r.panic
        /\ IsSome(r.v)
        /\ compute.op = "-" => AddU(ToLimbs(r.v[1]), offset).v = k
        /\ compute.op = "+" => SubU(ToLimbs(r.v[1]), offset).v = k
        /\ (compute.op = "<<" /\ ~LtU(offset, ToLimbs(U32Bits))) => r.v[1] = 0

\* C19 as stated: after E no identifier of the program refers to a proxy
\* variable whose declarator E removed, wherever the reference stands
\* relative to the declarator.
C19_NoReferenceToRemoved ==
  [][pc = "proxy_vars" =>
       \A n \in {m \in NodeSet(program') : IsIdent(m)} :
          IdOf(n) \notin DOMAIN ProxyTables(program).replacements]_vars

\* C20 as stated: after E no function declaration of the program, at any
\* nesting depth, still carries a binding identity recorded in the rename
\* table: each carries the recorded new symbol.
C20_RecordedFunctionsRenamed ==
  [][pc = "proxy_vars" =>
       LET table == ProxyTables(program).function_replacements
           Decls(p) == {m \in NodeSet(p) : m.t = "FnDecl"}
       IN /\ \A n \in Decls(program') : IdOf(n) \notin DOMAIN table
          /\ \A id \in DOMAIN table :
               Cardinality({n \in Decls(program') : n.s = table[id] /\ n.c = id[2]})
                 >= Cardinality({n \in Decls(program) : IdOf(n) = id})]_vars

\* C17 two generations running in parallel on different challenges do not
\* interfere: the cursor of each call holds only the lines its own passes
\* emit, a call panics only if it panics alone, and the result of each call
\* is the result of the call run alone.
C17_NoInterference ==
  threads # <<>> =>
    \A t \in Threads :
      LET r == threads.run[t]
          alone == GenerateToken(r.data, overflow_checks)
      IN /\ threads.cursors[t] \in {<<>>, alone.buffer}
         /\ r.pc \in {"computed_member_expr", "transformed", "done"} =>
              threads.cursors[t] = alone.buffer
         /\ r.pc = "panicked" => alone.panic
         /\ r.pc = "done" => (~alone.panic /\ r.result = alone.result)
\* both calls are inside the transform, past the strings pass; the first has
\* emitted an error and the second has not
C17_Witness ==
  /\ threads # <<>>
  /\ threads.run[1].pc = "computed_member_expr"
  /\ threads.run[2].pc = "computed_member_expr"
  /\ threads.cursors[1] # <<>>
  /\ threads.cursors[2] = <<>>

\* the path leads to the first element of an array literal that a return
\* statement returns
FirstOfReturned(p, path) ==
  /\ Len(path) >= 2
  /\ path[Len(path)] = 1
  /\ NodeAt(p, SubSeq(path, 1, Len(path) - 1)).t = "Array"
  /\ NodeAt(p, SubSeq(path, 1, Len(path) - 2)).t = "Return"

\* C21 as stated: the answer G records is the folded value of the first
\* element of a returned array literal; an element at a later position, or
\* of another array literal, is never folded into the answer, also when the
\* first element does not reduce to a number.
C21_AnswerIsFirstElement ==
  [][pc = "math_expr" =>
       LET folded == Folded(program, program')
       IN /\ \A c \in folded : FirstOfReturned(program, c.path)
          /\ IsSome(math_answer') =>
               \E c \in folded : math_answer' = Some(NumOf(c.new))]_vars

\* the calls F has marked for removal
MarkedCalls(p) == {n \in NodeSet(p) : n.t = "Call" /\ n.z}
\* a call whose first argument is a reference to the producer and whose
\* second argument is a numeric literal
IsRotatorCall(n, P) ==
  /\ Len(n.k) >= 3
  /\ n.k[2].t = "Ident"
  /\ IdOf(n.k[2]) = P
  /\ n.k[3].t = "Num"

\* C22 as stated: after F's searches every call marked for removal has a
\* reference to the producer as its first argument and a numeric literal as
\* its second, and the target is the second argument of such a call.
C22_TargetFromRotatorCall ==
  (pc \in {"evaluate", "rotate", "cleanup"} /\ IsSome(get_obf_strings_fn_id)) =>
    /\ \A n \in MarkedCalls(program) : IsRotatorCall(n, get_obf_strings_fn_id[1])
    /\ IsSome(answer) =>
         \E n \in MarkedCalls(program) :
            /\ IsRotatorCall(n, get_obf_strings_fn_id[1])
            /\ NumEq(NumOf(n.k[3]), answer[1])

\* the scripts whose indexer function holds no assignment `key = key op literal`
IndexerWithoutAssign(d) ==
  /\ d.kind = "challenge"
  /\ d.code.shape = "obfuscated"
  /\ d.code.producer = "decl"
  /\ d.code.indexer \in {"noassign", "stray"}

\* C23 as stated: when the indexer function holds no assignment of a binary
\* expression with a numeric literal as right operand, F records no
\* (offset, op), never enters the rotation loop, and the run ends with the
\* error "Index data not found", whatever assignments follow the indexer.
C23_MissingIndexerReported ==
  IndexerWithoutAssign(data) =>
    /\ index_data = None
    /\ pc \notin {"evaluate", "rotate", "cleanup"}
    /\ pc = "done" =>
         /\ ErrorLines(err_dst) # <<>>
         /\ ErrorLines(err_dst)[1] = "Index data not found"

\* the scripts whose only array of strings in a function declaration is empty
EmptyDictionary(d) ==
  /\ d.kind = "challenge"
  /\ d.code.shape = "obfuscated"
  /\ d.code.producer = "decl"
  /\ d.code.dict = <<>>

\* C24 as stated: a function whose array literal is empty is not taken as
\* the producer; when the only candidate dictionary is empty, F records no
\* producer and the run ends with a missing-producer error.
C24_EmptyProducerRejected ==
  EmptyDictionary(data) =>
    /\ get_obf_strings_fn_id = None
    /\ obfuscated_strings = None
    /\ pc \notin {"evaluate", "rotate", "cleanup"}
    /\ pc = "done" =>
         /\ ErrorLines(err_dst) # <<>>
         /\ ErrorLines(err_dst)[1] \in {"Couldn't find obfuscated strings function",
                                        "Couldn't find obfuscated strings"}

\* the loop's comparison succeeds on the original dictionary rotated left k times
MatchesAt(k) ==
  \E e \in {EvalChecksum(original_expr[1], index_data[1],
                         RotateBy(original_obfuscated_strings[1], k), overflow_checks)} :
     ~e.panic /\ ChecksumMatches(e.expr, answer[1])

\* the rotation loop has been left by its break
LoopLeftByBreak == pc = "cleanup" \/ MatchCompleted

\* C25: when the rotation loop is left by its break after k rotations, the
\* dictionary is the original one rotated left k times, the checksum equals
\* the target at k and at no smaller rotation; when the checksum of the
\* original dictionary equals the target the dictionary is not rotated and
\* the sweep substitutes from the original dictionary.
C25_FirstMatchingRotation ==
  LoopLeftByBreak =>
    /\ rotations < Len(original_obfuscated_strings[1])
    /\ obfuscated_strings[1] = RotateBy(original_obfuscated_strings[1], rotations)
    /\ MatchesAt(rotations)
    /\ \A j \in 0..(rotations - 1) : ~MatchesAt(j)
    /\ MatchesAt(0) => obfuscated_strings = original_obfuscated_strings
    /\ DocumentedShape(data) => rotations = FirstMatch(data.code)

\* the loop has been left on the first evaluation and the sweep has
\* substituted from the unrotated dictionary
C25_Witness ==
  /\ MatchCompleted
  /\ rotations = 0
  /\ evaluations = 1
  /\ obfuscated_strings = original_obfuscated_strings
  /\ \E n \in NodeSet(program) :
        /\ n.t = "Str"
        /\ \E i \in 1..Len(original_obfuscated_strings[1]) :
              n.s = original_obfuscated_strings[1][i]

\* the function expressions of a program, in traversal order, whose first
\* parameter is a plain identifier
HasIdentParam(n) ==
  /\ n.t = "FnExpr"
  /\ Len(n.k[1].k) >= 1
  /\ n.k[1].k[1].t = "BindingIdent"
FirstFnParam(p) ==
  LET ns == Nodes(p)
      at == {i \in 1..Len(ns) : HasIdentParam(ns[i])}
  IN IF at = {} THEN None
     ELSE Some(IdOf(ns[CHOOSE i \in at : \A j \in at : i <= j].k[1].k[1]))

\* the parameter G has bound when it has traversed the program
BoundParam(p, input) == MathVisitor(p, MathVisitorNew(input)).st.input_param

\* the references below e to the binding B
RefsBelow(e, B) ==
  {n \in NodeSet(e) : n # e /\ n.t = "Ident" /\ IsSome(B) /\ IdOf(n) = B[1]}

\* C26: G's bound parameter is the first parameter of the first function
\* expression, in traversal order, whose first parameter is a plain
\* identifier; below the first element of a returned array no reference to
\* that binding is left after G, and every identifier G replaces anywhere
\* has that binding (symbol and scope-id) and is replaced by the input.
C26_InputParamBinding ==
  [][pc = "math_expr" =>
       LET B == FirstFnParam(program)
       IN /\ BoundParam(program, data.input) = B
          /\ \A e \in AnswerExprs(program') : RefsBelow(e, B) = {}
          /\ \A c \in Changes(program, program', <<>>) :
                c.old.t = "Ident" =>
                  /\ IsSome(B)
                  /\ IdOf(c.old) = B[1]
                  /\ c.new = NumLit(data.input)]_vars

\* G has replaced the reference to the input parameter and left the
\* reference to the inner function's parameter of the same symbol, in a
\* program that holds a further function expression after the first
C26_Witness ==
  /\ pc = "transformed"
  /\ data.kind = "challenge"
  /\ data.code.answer = "shadow"
  /\ \E e \in AnswerExprs(program) :
        /\ e.t = "Bin"
        /\ e.k[1] = NumLit(data.input)
        /\ Ident("a", 8) \in NodeSet(e)

\* Math.sign of JavaScript: NaN for a missing or NaN argument, else the sign
JsSign(args) ==
  IF args = <<>> \/ IsNaN(args[1]) THEN NaN
  ELSE IF NumLt(Int2Num(0), args[1]) THEN Int2Num(1)
  ELSE IF NumLt(args[1], Int2Num(0)) THEN Int2Num(-1)
  ELSE Int2Num(0)

\* C27 as stated: compute_call gives for "sign" what Math.sign gives: 1 for a
\* positive argument, -1 for a negative one, 0 for zero, NaN for a NaN or a
\* missing argument.
C27_SignAsJavaScript ==
  (math_call # <<>> /\ math_call.fn_name = "sign" /\ IsSome(math_call.out)) =>
    math_call.out[1] = Some(JsSign(math_call.args))

IsFnDecl(n) == n.t = "FnDecl"
\* the function declarations of a program in traversal order; E keeps their
\* number and their order
FnDeclSeq(p) == SelectSeq(Nodes(p), IsFnDecl)
\* the identifiers of a program other than the names of its function
\* declarations
References(p) == {n \in NodeSet(p) : IsIdent(n)}

\* C28 as stated: after E every reference to a function declaration carries
\* the symbol that the declaration carries after E: the direct references
\* (those with the declaration's binding identity), the symbol substituted
\* for each proxy variable of the function, and every reference with a
\* generated symbol.
C28_ResolutionPreserved ==
  [][pc = "proxy_vars" =>
       LET pre == FnDeclSeq(program)
           post == FnDeclSeq(program')
           table == ProxyTables(program).replacements
       IN /\ Len(post) = Len(pre)
          /\ \A i \in 1..Len(pre) :
               /\ \A n \in References(program') :
                    IdOf(n) = IdOf(pre[i]) => n.s = post[i].s
               /\ \A d \in DirectProxies(program) :
                    (IdOf(d.k[2]) = IdOf(pre[i]) /\ IdOf(d.k[1]) \in DOMAIN table) =>
                       table[IdOf(d.k[1])][1] = post[i].s
          /\ \A n \in References(program') :
               (n.s \in ProxyFnSymbols /\ n.s \notin Symbols(program)) =>
                  \E j \in 1..Len(post) : post[j].s = n.s /\ post[j].c = n.c]_vars

\* D is D0 rotated: the same length, the same elements in the same cyclic order
IsRotationOf(D, D0) ==
  /\ Len(D) = Len(D0)
  /\ \/ D0 = <<>>
     \/ \E k \in 0..(Len(D0) - 1) : D = RotateBy(D0, k)
\* the string literals of q that p does not hold
NewStrings(p, q) == {n.s : n \in {m \in NodeSet(q) : m.t = "Str"} \ NodeSet(p)}
Elements(strings) == {strings[i] : i \in 1..Len(strings)}

\* C29: whenever F is in its rotation loop or at the sweep after it, the
\* working dictionary is a cyclic rotation of the original dictionary, and
\* every string literal the sweep puts into the program is an element of the
\* original dictionary.
C29_RotationOfOriginal ==
  [][/\ pc' \in {"evaluate", "rotate", "cleanup"} =>
          IsRotationOf(obfuscated_strings'[1], original_obfuscated_strings'[1])
     /\ pc = "cleanup" =>
          NewStrings(program, program') \subseteq Elements(original_obfuscated_strings[1])]_vars

\* the loop has rotated the dictionary and the sweep has substituted from it
C29_Witness ==
  /\ MatchCompleted
  /\ rotations >= 1
  /\ obfuscated_strings # original_obfuscated_strings
  /\ \E n \in NodeSet(program) :
        /\ n.t = "Str"
        /\ n.s \in Elements(original_obfuscated_strings[1])

====
